---- MODULE Spec2Model ----
(***************************************************************************)
(* FinanceMaster: the event bus (event_manager.py), the model classes      *)
(* (models.py), the repositories on the SQLite store (repository.py,       *)
(* database_manager.py) and the service facade (services.py).              *)
(*                                                                         *)
(* The program is single-threaded and synchronous: every public call runs  *)
(* to its end before the next one starts, so one action is one whole call. *)
(* What a call did, in the order in which it did it, is kept in the        *)
(* history variables `dispatch` (the last call of the bus) and `last` (the *)
(* last facade call).                                                      *)
(*                                                                         *)
(* SpecBus is the EventManager alone under subscribe, unsubscribe and      *)
(* notify; Spec is the service facade on the store and on a wired bus;     *)
(* SpecStore is the facade on a store that is initialized again at every   *)
(* start of the program; SpecReport is a ReportGenerator and its two       *)
(* strategies (reporting_strategy.py) on a list of records; SpecDb is the  *)
(* singleton DatabaseManager; SpecReentrant is the EventManager under      *)
(* listeners that call it back; SpecUi is MainApplication (ui.py) and its  *)
(* views on the bus and on the facade.                                     *)
(***************************************************************************)
EXTENDS Integers, Sequences, FiniteSets, TLC

VARIABLES
    listeners,      \* EventManager._listeners: dict event_type -> list of listeners
    dispatch,       \* history: the last run of EventManager.notify
    transactions,   \* table transactions: set of rows
    txSeq,          \* AUTOINCREMENT counter of table transactions
    categories,     \* table categories: set of rows
    catSeq,         \* AUTOINCREMENT counter of table categories
    last,           \* history: the last call of the service facade
    records,        \* the list of transaction dicts handed to the report generator
    strategy,       \* ReportGenerator._strategy
    report,         \* history: the last call of the ReportGenerator
    db,             \* class DatabaseManager: _instance, _connection and their history
    ui              \* MainApplication: the view on display and what it shows

vars == <<listeners, dispatch, transactions, txSeq, categories, catSeq, last,
          records, strategy, report, db, ui>>
storeVars == <<transactions, txSeq, categories, catSeq>>
reportVars == <<records, strategy, report>>

(***************************************************************************)
(* Bounds of the model.                                                    *)
(***************************************************************************)
\* Rows ever inserted into table transactions in one behaviour.
MaxTx == 1
\* Rows ever inserted into table categories by add_category in one behaviour.
MaxCat == 1

(***************************************************************************)
(* Listeners.  A listener is any callable.  What notify depends on is      *)
(* whether the call raises (line 39) and whether the callable has a        *)
(* __name__ (line 41: functions, lambdas and bound methods have one,       *)
(* functools.partial objects and callable instances have not).             *)
(***************************************************************************)
Callbacks == {"probe", "raiser", "partial_raiser"}

\* listener(data) raises an Exception
Raises(cb) == cb \in {"raiser", "partial_raiser"}

\* listener.__name__ exists
HasName(cb) == cb \in {"probe", "raiser"}

\* The event types of the system (names are part of the contract).
EventTypes ==
    {"transaction_added", "transaction_deleted",
     "category_added", "category_updated", "category_deleted"}

\* The event types the bus-only specification subscribes to and notifies.
BusEvents == {"transaction_added", "transaction_deleted"}

\* The payloads the bus-only specification passes to notify.
BusData == {[id |-> 1], [id |-> 2]}

(***************************************************************************)
(* Sequence helpers (list operations of Python).                           *)
(***************************************************************************)
\* x in list
InList(x, s) == \E i \in 1..Len(s) : s[i] = x

\* list.index(x) + 1, for x in list
IndexOf(x, s) == CHOOSE i \in 1..Len(s) : s[i] = x /\ \A j \in 1..(i - 1) : s[j] # x

\* list.remove(x): removes the first occurrence of x
RemoveFirst(x, s) ==
    LET k == IndexOf(x, s)
    IN  [i \in 1..(Len(s) - 1) |-> IF i < k THEN s[i] ELSE s[i + 1]]

\* how many times x occurs in s
Count(x, s) == Cardinality({i \in 1..Len(s) : s[i] = x})

(***************************************************************************)
(* EventManager                                                            *)
(***************************************************************************)
\* EventManager.__init__: self._listeners = {}
NoListeners == [e \in {} |-> <<>>]

\* dict assignment d[k] = v
DictSet(d, k, v) == [e \in DOMAIN d \cup {k} |-> IF e = k THEN v ELSE d[e]]

\* subscribe(event_type, listener): the registry after the call
SubscribeBad(ls, ev, cb) ==
    LET withKey == IF ev \in DOMAIN ls THEN ls ELSE DictSet(ls, ev, <<>>)
    IN  DictSet(withKey, ev, Append(withKey[ev], cb))

SubscribeTo(ls, ev, cb) ==
    LET withKey == IF ev \in DOMAIN ls THEN ls ELSE DictSet(ls, ev, <<>>)
    IN  IF ~InList(cb, withKey[ev])
        THEN DictSet(withKey, ev, Append(withKey[ev], cb))
        ELSE withKey

\* unsubscribe(event_type, listener): the registry after the call
UnsubscribeAll(ls, ev, cb) ==
    IF ev \in DOMAIN ls /\ InList(cb, ls[ev])
    THEN [e \in DOMAIN ls |-> <<>>]
    ELSE ls

UnsubscribeFrom(ls, ev, cb) ==
    IF ev \in DOMAIN ls /\ InList(cb, ls[ev])
    THEN DictSet(ls, ev, RemoveFirst(cb, ls[ev]))
    ELSE ls

\* One entry of the history of a notify: listener(data) was called.
Call(cb, data) == [cb |-> cb, data |-> data]

\* The for loop of notify from position i of the list, `calls` being the calls
\* made so far.  listener(data) is called; an Exception it raises is caught and
\* the handler prints listener.__name__: without that attribute the handler
\* itself raises AttributeError, which leaves the loop and notify.
RECURSIVE NotifyLoop(_, _, _, _)
NotifyLoop(list, i, data, calls) ==
    IF i > Len(list)
    THEN [calls |-> calls, raised |-> FALSE]
    ELSE LET cb == list[i]
             made == Append(calls, Call(cb, data))
         IN  IF Raises(cb) /\ ~HasName(cb)
             THEN [calls |-> made, raised |-> TRUE]
             ELSE NotifyLoop(list, i + 1, data, made)

\* notify(event_type, data): the calls it makes, in order, and whether an
\* exception leaves it.
NotifyRun(ls, ev, data) ==
    IF ev \in DOMAIN ls
    THEN NotifyLoop(ls[ev], 1, data, <<>>)
    ELSE [calls |-> <<>>, raised |-> FALSE]

\* The list registered under an event type, empty when the dict has no such key.
ListOf(ls, ev) == IF ev \in DOMAIN ls THEN ls[ev] ELSE <<>>

\* The history record of one call of the bus: `before` is the list registered
\* under the event type when the call was made; for a notify, `calls` are the
\* calls it made, in order, and `raised` tells whether an exception left it.
DispatchOf(ls, ev, data) ==
    LET run == NotifyRun(ls, ev, data)
    IN  [op |-> "notify", ev |-> ev, cb |-> "none", data |-> data,
         before |-> ListOf(ls, ev),
         calls |-> run.calls, raised |-> run.raised]

NoDispatch ==
    [op |-> "none", ev |-> "none", cb |-> "none", data |-> [id |-> 0],
     before |-> <<>>, calls |-> <<>>, raised |-> FALSE]

NoCall == [op |-> "none"]

\* No ReportGenerator has been used: what the report variables hold in the
\* specifications of the bus and of the facade.
NoOutput == [head |-> "", sections |-> <<>>]
NoReport == [op |-> "none", ctor |-> "none", set |-> "none", out |-> NoOutput]
NoReporting == records = <<>> /\ strategy = "none" /\ report = NoReport

\* No DatabaseManager and no MainApplication are followed: what `db` and `ui`
\* hold in the specifications that are not about them.
NoHost == db = NoCall /\ ui = NoCall

\* subscribe(event_type, listener)
Subscribe(ev, cb) ==
    /\ listeners' = SubscribeTo(listeners, ev, cb)
    /\ dispatch' = [NoDispatch EXCEPT !.op = "subscribe", !.ev = ev, !.cb = cb,
                                      !.before = ListOf(listeners, ev)]
    /\ UNCHANGED <<storeVars, last, reportVars, db, ui>>

\* unsubscribe(event_type, listener)
Unsubscribe(ev, cb) ==
    /\ listeners' = UnsubscribeFrom(listeners, ev, cb)
    /\ dispatch' = [NoDispatch EXCEPT !.op = "unsubscribe", !.ev = ev, !.cb = cb,
                                      !.before = ListOf(listeners, ev)]
    /\ UNCHANGED <<storeVars, last, reportVars, db, ui>>

\* A notify that looks the list up as a defaultdict would: the key is created.
NotifyCreatesKey(ev, data) ==
    /\ dispatch' = DispatchOf(listeners, ev, data)
    /\ listeners' = DictSet(listeners, ev, ListOf(listeners, ev))
    /\ UNCHANGED <<storeVars, last, reportVars, db, ui>>

\* notify(event_type, data)
Notify(ev, data) ==
    /\ dispatch' = DispatchOf(listeners, ev, data)
    /\ UNCHANGED <<listeners, storeVars, last, reportVars, db, ui>>

\* The bus alone: a new EventManager, no store.
InitBus ==
    /\ listeners = NoListeners
    /\ dispatch = NoDispatch
    /\ transactions = {}
    /\ txSeq = 0
    /\ categories = {}
    /\ catSeq = 0
    /\ last = NoCall
    /\ NoReporting
    /\ NoHost

NextBus ==
    \/ \E ev \in BusEvents, cb \in Callbacks : Subscribe(ev, cb)
    \/ \E ev \in BusEvents, cb \in Callbacks : Unsubscribe(ev, cb)
    \/ \E ev \in BusEvents, data \in BusData : Notify(ev, data)

SpecBus == InitBus /\ [][NextBus]_vars


(***************************************************************************)
(* Values of the facade's arguments.                                       *)
(*                                                                         *)
(* A date string is the tuple of its characters.  An amount is a record:   *)
(* t = "num" is an int or float of value v, t = "nan" is float('nan'),     *)
(* t = "str" is a string (not a number).  An id is a Python int: `wide`    *)
(* tells that it is n + 2^64, which SQLite's 64-bit INTEGER cannot hold.   *)
(* A category name is the tuple of its pieces, each one blank (" ") or     *)
(* free of whitespace.                                                     *)
(***************************************************************************)
Date(y1, y2, y3, y4, s1, m1, m2, s2, d1, d2) == <<y1, y2, y3, y4, s1, m1, m2, s2, d1, d2>>

DateInputs ==
    { Date("2","0","2","5","-","0","1","-","1","0"),       \* 2025-01-10
      Date("2","0","2","5","-","0","1","-"," ","5"),       \* 2025-01- 5
      Date("2","0","2","5","-","0","2","-","3","0"),       \* 2025-02-30
      Date("2","0","2","5","/","0","1","/","1","0"),       \* 2025/01/10
      <<"2","0","2","5","-","1","-","0","5">> }            \* 2025-1-05

Num(v) == [t |-> "num", v |-> v]
AmountInputs == {Num(10), Num(0), Num(0 - 5), [t |-> "nan", v |-> 0], [t |-> "str", v |-> 10]}

TypeInputs == {"income", "expense", "transfer"}

\* The arguments of register_transaction the model draws from: every type,
\* amount and date on an otherwise valid call, and one call with all three bad.
TxInputs ==
    LET Args(ty, am, da) ==
            [type |-> ty, amount |-> am, date |-> da,
             description |-> "Salary", category |-> "Outros"]
        okDate == Date("2","0","2","5","-","0","1","-","1","0")
    IN  {Args(ty, Num(10), okDate) : ty \in TypeInputs}
        \cup {Args("income", am, okDate) : am \in AmountInputs}
        \cup {Args("expense", Num(10), da) : da \in DateInputs}
        \cup {Args("transfer", Num(0), Date("2","0","2","5","/","0","1","/","1","0"))}

PyInt(n) == [wide |-> FALSE, n |-> n]
TooWide == [wide |-> TRUE, n |-> 0]
TxIdInputs == {PyInt(n) : n \in 1..(MaxTx + 1)} \cup {TooWide}
CatIdInputs == {PyInt(n) : n \in 1..(MaxCat + 2)} \cup {TooWide}

NameInputs == {<<"Food">>, <<" ", "Food", " ">>, <<"Outros">>, <<" ">>, <<>>}

(***************************************************************************)
(* datetime.datetime.strptime(date_str, "%Y-%m-%d")                        *)
(***************************************************************************)
Digits == {"0", "1", "2", "3", "4", "5", "6", "7", "8", "9"}

DigitVal(c) ==
    CASE c = "0" -> 0 [] c = "1" -> 1 [] c = "2" -> 2 [] c = "3" -> 3 [] c = "4" -> 4
      [] c = "5" -> 5 [] c = "6" -> 6 [] c = "7" -> 7 [] c = "8" -> 8 [] c = "9" -> 9
      [] OTHER -> 0

\* int() of a token of digits, a leading blank skipped
RECURSIVE TokenVal(_)
TokenVal(t) ==
    IF t = <<>> THEN 0
    ELSE TokenVal(SubSeq(t, 1, Len(t) - 1)) * 10 + DigitVal(t[Len(t)])

\* %m matches 1[0-2]|0[1-9]|[1-9]
IsMonthToken(t) ==
    \/ Len(t) = 2 /\ t[1] = "1" /\ t[2] \in {"0", "1", "2"}
    \/ Len(t) = 2 /\ t[1] = "0" /\ t[2] \in Digits \ {"0"}
    \/ Len(t) = 1 /\ t[1] \in Digits \ {"0"}

\* %d matches 3[0-1]|[1-2]\d|0[1-9]|[1-9]| [1-9]
IsDayToken(t) ==
    \/ Len(t) = 2 /\ t[1] = "3" /\ t[2] \in {"0", "1"}
    \/ Len(t) = 2 /\ t[1] \in {"1", "2"} /\ t[2] \in Digits
    \/ Len(t) = 2 /\ t[1] \in {"0", " "} /\ t[2] \in Digits \ {"0"}
    \/ Len(t) = 1 /\ t[1] \in Digits \ {"0"}

IsLeap(y) == y % 4 = 0 /\ (y % 100 # 0 \/ y % 400 = 0)

DaysInMonth(y, m) ==
    IF m = 2 THEN (IF IsLeap(y) THEN 29 ELSE 28)
    ELSE IF m \in {4, 6, 9, 11} THEN 30 ELSE 31

\* The ways the format's regular expression matches the whole string: the
\* lengths of the month and the day token.
StrptimeSplits(s) ==
    {sp \in {1, 2} \X {1, 2} :
        /\ Len(s) = 6 + sp[1] + sp[2]
        /\ \A i \in 1..4 : s[i] \in Digits
        /\ s[5] = "-"
        /\ IsMonthToken(SubSeq(s, 6, 5 + sp[1]))
        /\ s[6 + sp[1]] = "-"
        /\ IsDayToken(SubSeq(s, 7 + sp[1], Len(s)))}

\* strptime returns a datetime (TRUE) or raises ValueError (FALSE): the string
\* must match the format and name a day that exists.
Strptime(s) ==
    \E sp \in StrptimeSplits(s) :
        LET y == TokenVal(SubSeq(s, 1, 4))
            m == TokenVal(SubSeq(s, 6, 5 + sp[1]))
            d == TokenVal(SubSeq(s, 7 + sp[1], Len(s)))
        IN  y >= 1 /\ d <= DaysInMonth(y, m)

(***************************************************************************)
(* models.py                                                               *)
(***************************************************************************)
\* isinstance(amount, (int, float)): float('nan') is a float
IsNumber(a) == a.t \in {"num", "nan"}

\* amount <= 0: every comparison with NaN is False
LeqZero(a) == a.t = "num" /\ a.v <= 0

\* Transaction.__init__ accepts the arguments (raises no ValueError)
TransactionAccepts(a) ==
    /\ a.type \in {"income", "expense"}
    /\ IsNumber(a.amount) /\ ~LeqZero(a.amount)
    /\ Len(a.date) = 10 /\ a.date[5] = "-" /\ a.date[8] = "-"

\* Transaction.to_dict()
TransactionDict(a) ==
    [type |-> a.type, amount |-> a.amount, date |-> a.date,
     description |-> a.description, category |-> a.category]

\* str.strip()
RECURSIVE Strip(_)
Strip(name) ==
    IF name = <<>> THEN name
    ELSE IF Head(name) = " " THEN Strip(Tail(name))
    ELSE IF name[Len(name)] = " " THEN Strip(SubSeq(name, 1, Len(name) - 1))
    ELSE name

\* Category.__init__ accepts the name (raises no ValueError)
CategoryAccepts(name) == Strip(name) # <<>>

\* Category.to_dict()
CategoryDict(name) == [name |-> Strip(name)]


(***************************************************************************)
(* repository.py: the statements on the SQLite store.  A repository method *)
(* returns TRUE or FALSE, or an exception that is no sqlite3.Error leaves  *)
(* it ("raised"): binding an int outside 64 bits raises OverflowError.     *)
(***************************************************************************)
\* sqlite3 binds the int as an INTEGER parameter
Binds(id) == ~id.wide

\* The rows WHERE id = ? selects
RowsWithId(rows, id) == {r \in rows : Binds(id) /\ r.id = id.n}

\* TransactionRepository.add: the INSERT fails on amount REAL NOT NULL when
\* the amount is NaN, which sqlite3 binds as NULL; the id is AUTOINCREMENT.
TransactionAdd(rows, seq, a) ==
    IF a.amount.t = "nan"
    THEN [ok |-> FALSE, rows |-> rows, seq |-> seq]
    ELSE [ok |-> TRUE, seq |-> seq + 1,
          rows |-> rows \cup {[id |-> seq + 1, type |-> a.type, amount |-> a.amount,
                               date |-> a.date, description |-> a.description,
                               category |-> a.category]}]

\* A delete whose statement has no WHERE clause: every row of the table goes.
RepositoryDeleteAll(rows, id) ==
    IF ~Binds(id) THEN [ok |-> "raised", rows |-> rows]
    ELSE IF rows # {} THEN [ok |-> "True", rows |-> {}]
    ELSE [ok |-> "False", rows |-> rows]

\* TransactionRepository.delete / CategoryRepository.delete:
\* DELETE ... WHERE id = ?, TRUE when a row was deleted
RepositoryDelete(rows, id) ==
    IF ~Binds(id) THEN [ok |-> "raised", rows |-> rows]
    ELSE IF RowsWithId(rows, id) # {}
    THEN [ok |-> "True", rows |-> rows \ RowsWithId(rows, id)]
    ELSE [ok |-> "False", rows |-> rows]

\* A CategoryRepository.add without the UNIQUE constraint on name.
CategoryAddNotUnique(rows, seq, name) ==
    [ok |-> TRUE, seq |-> seq + 1, rows |-> rows \cup {[id |-> seq + 1, name |-> name]}]

\* CategoryRepository.add: the INSERT fails on name TEXT NOT NULL UNIQUE
CategoryAdd(rows, seq, name) ==
    IF \E r \in rows : r.name = name
    THEN [ok |-> FALSE, rows |-> rows, seq |-> seq]
    ELSE [ok |-> TRUE, seq |-> seq + 1, rows |-> rows \cup {[id |-> seq + 1, name |-> name]}]

\* CategoryRepository.update: UPDATE categories SET name = ? WHERE id = ?,
\* TRUE when a row was updated, FALSE when none was or the name is taken
CategoryUpdate(rows, id, name) ==
    IF ~Binds(id) THEN [ok |-> "raised", rows |-> rows]
    ELSE IF RowsWithId(rows, id) = {} THEN [ok |-> "False", rows |-> rows]
    ELSE IF \E r \in rows : r.name = name /\ r.id # id.n
    THEN [ok |-> "False", rows |-> rows]
    ELSE [ok |-> "True",
          rows |-> {IF r.id = id.n THEN [r EXCEPT !.name = name] ELSE r : r \in rows}]

(***************************************************************************)
(* services.py.  A run of a facade method is a record: the store after it, *)
(* the notify it made (NoDispatch when it made none), its result ("True",  *)
(* "False", or "raised" when an exception leaves the method) and `trace`,  *)
(* what it did in order: "rejected" (validation failed), "store_failed",   *)
(* "stored" (the store call returned True), "notify".                      *)
(***************************************************************************)
Run(rows, seq, dsp, result, trace) ==
    [rows |-> rows, seq |-> seq, dispatch |-> dsp, result |-> result, trace |-> trace]

\* The result of a method that returns True after notify: an exception that
\* leaves notify is caught by the method's `except Exception` (-> False).
AfterNotifyCaught(dsp) == IF dsp.raised THEN "False" ELSE "True"

\* The result of a method that calls notify outside any try.
AfterNotifyBare(dsp) == IF dsp.raised THEN "raised" ELSE "True"

\* register_transaction: the checks before the store is called, in the order
\* of the code: amount, type, strptime, then Transaction(...)
RegisterChecks(a) ==
    /\ IsNumber(a.amount) /\ ~LeqZero(a.amount)
    /\ a.type \in {"income", "expense"}
    /\ Strptime(a.date)
    /\ TransactionAccepts(a)

\* register_transaction(type, amount, date_str, description, category)
RegisterTransactionRun(ls, rows, seq, a) ==
    IF ~RegisterChecks(a)
    THEN Run(rows, seq, NoDispatch, "False", <<"rejected">>)
    ELSE LET ins == TransactionAdd(rows, seq, a)
             dsp == DispatchOf(ls, "transaction_added", TransactionDict(a))
         IN  IF ins.ok
             THEN Run(ins.rows, ins.seq, dsp, AfterNotifyCaught(dsp), <<"stored", "notify">>)
             ELSE Run(rows, seq, NoDispatch, "False", <<"store_failed">>)

\* A delete_transaction that notifies whatever the repository returned.
DeleteTransactionRunEager(ls, rows, seq, id) ==
    LET del == RepositoryDelete(rows, id)
        dsp == DispatchOf(ls, "transaction_deleted", [id |-> id])
    IN  Run(del.rows, seq, dsp, del.ok, <<"notify">>)

\* delete_transaction(transaction_id)
DeleteTransactionRun(ls, rows, seq, id) ==
    LET del == RepositoryDelete(rows, id)
        dsp == DispatchOf(ls, "transaction_deleted", [id |-> id])
    IN  CASE del.ok = "True" ->
                Run(del.rows, seq, dsp, AfterNotifyBare(dsp), <<"stored", "notify">>)
          [] del.ok = "False" ->
                Run(rows, seq, NoDispatch, "False", <<"store_failed">>)
          [] OTHER ->
                Run(rows, seq, NoDispatch, "raised", <<"store_failed">>)

\* add_category(name)
AddCategoryRun(ls, rows, seq, name) ==
    IF ~CategoryAccepts(name)
    THEN Run(rows, seq, NoDispatch, "False", <<"rejected">>)
    ELSE LET ins == CategoryAdd(rows, seq, Strip(name))
             dsp == DispatchOf(ls, "category_added", CategoryDict(name))
         IN  IF ins.ok
             THEN Run(ins.rows, ins.seq, dsp, AfterNotifyCaught(dsp), <<"stored", "notify">>)
             ELSE Run(rows, seq, NoDispatch, "False", <<"store_failed">>)

\* An update_category that hands new_name to the repository as it was given.
UpdateCategoryRunRaw(ls, rows, seq, id, name) ==
    IF ~CategoryAccepts(name)
    THEN Run(rows, seq, NoDispatch, "False", <<"rejected">>)
    ELSE LET upd == CategoryUpdate(rows, id, name)
             dsp == DispatchOf(ls, "category_updated", [id |-> id, name |-> name])
         IN  IF upd.ok = "True"
             THEN Run(upd.rows, seq, dsp, AfterNotifyCaught(dsp), <<"stored", "notify">>)
             ELSE Run(rows, seq, NoDispatch, "False", <<"store_failed">>)

\* update_category(category_id, new_name): an exception of the repository is
\* caught by `except Exception`; the payload carries new_name as it was given
UpdateCategoryRun(ls, rows, seq, id, name) ==
    IF ~CategoryAccepts(name)
    THEN Run(rows, seq, NoDispatch, "False", <<"rejected">>)
    ELSE LET upd == CategoryUpdate(rows, id, Strip(name))
             dsp == DispatchOf(ls, "category_updated", [id |-> id, name |-> name])
         IN  IF upd.ok = "True"
             THEN Run(upd.rows, seq, dsp, AfterNotifyCaught(dsp), <<"stored", "notify">>)
             ELSE Run(rows, seq, NoDispatch, "False", <<"store_failed">>)

\* delete_category(category_id)
DeleteCategoryRun(ls, rows, seq, id) ==
    LET del == RepositoryDelete(rows, id)
        dsp == DispatchOf(ls, "category_deleted", [id |-> id])
    IN  CASE del.ok = "True" ->
                Run(del.rows, seq, dsp, AfterNotifyBare(dsp), <<"stored", "notify">>)
          [] del.ok = "False" ->
                Run(rows, seq, NoDispatch, "False", <<"store_failed">>)
          [] OTHER ->
                Run(rows, seq, NoDispatch, "raised", <<"store_failed">>)

\* The history record of a facade call.
CallOf(op, args, run) == [op |-> op, args |-> args, result |-> run.result, trace |-> run.trace]

\* TransactionService.register_transaction
RegisterTransaction(a) ==
    LET run == RegisterTransactionRun(listeners, transactions, txSeq, a)
    IN  /\ run.seq <= MaxTx
        /\ transactions' = run.rows
        /\ txSeq' = run.seq
        /\ dispatch' = run.dispatch
        /\ last' = CallOf("register_transaction", a, run)
        /\ UNCHANGED <<listeners, categories, catSeq, reportVars, db, ui>>

\* TransactionService.delete_transaction
DeleteTransaction(id) ==
    LET run == DeleteTransactionRun(listeners, transactions, txSeq, id)
    IN  /\ transactions' = run.rows
        /\ dispatch' = run.dispatch
        /\ last' = CallOf("delete_transaction", [id |-> id], run)
        /\ UNCHANGED <<listeners, txSeq, categories, catSeq, reportVars, db, ui>>

\* CategoryService.add_category
AddCategory(name) ==
    LET run == AddCategoryRun(listeners, categories, catSeq, name)
    IN  /\ run.seq <= MaxCat + 1
        /\ categories' = run.rows
        /\ catSeq' = run.seq
        /\ dispatch' = run.dispatch
        /\ last' = CallOf("add_category", [name |-> name], run)
        /\ UNCHANGED <<listeners, transactions, txSeq, reportVars, db, ui>>

\* CategoryService.update_category
UpdateCategory(id, name) ==
    LET run == UpdateCategoryRun(listeners, categories, catSeq, id, name)
    IN  /\ categories' = run.rows
        /\ dispatch' = run.dispatch
        /\ last' = CallOf("update_category", [id |-> id, name |-> name], run)
        /\ UNCHANGED <<listeners, transactions, txSeq, catSeq, reportVars, db, ui>>

\* CategoryService.delete_category
DeleteCategory(id) ==
    LET run == DeleteCategoryRun(listeners, categories, catSeq, id)
    IN  /\ categories' = run.rows
        /\ dispatch' = run.dispatch
        /\ last' = CallOf("delete_category", [id |-> id], run)
        /\ UNCHANGED <<listeners, transactions, txSeq, catSeq, reportVars, db, ui>>

\* The listeners the host subscribes, in this order, under every event type
\* before the facade is used.
Wirings == {<<>>, <<"raiser", "probe">>, <<"partial_raiser", "probe">>}

RECURSIVE SubscribeEach(_, _, _)
SubscribeEach(ls, ev, cbs) ==
    IF cbs = <<>> THEN ls
    ELSE SubscribeEach(SubscribeTo(ls, ev, Head(cbs)), ev, Tail(cbs))

RECURSIVE Wire(_, _, _)
Wire(ls, evs, cbs) ==
    IF evs = {} THEN ls
    ELSE LET ev == CHOOSE e \in evs : TRUE
         IN  Wire(SubscribeEach(ls, ev, cbs), evs \ {ev}, cbs)

\* main.py: DatabaseManager() has created the tables and the default category
\* 'Outros', EventManager() is new and wired, the services are constructed.
Init ==
    /\ listeners \in {Wire(NoListeners, EventTypes, cbs) : cbs \in Wirings}
    /\ dispatch = NoDispatch
    /\ transactions = {}
    /\ txSeq = 0
    /\ categories = {[id |-> 1, name |-> <<"Outros">>]}
    /\ catSeq = 1
    /\ last = NoCall
    /\ NoReporting
    /\ NoHost

Next ==
    \/ \E a \in TxInputs : RegisterTransaction(a)
    \/ \E id \in TxIdInputs : DeleteTransaction(id)
    \/ \E name \in NameInputs : AddCategory(name)
    \/ \E id \in CatIdInputs, name \in NameInputs : UpdateCategory(id, name)
    \/ \E id \in CatIdInputs : DeleteCategory(id)

Spec == Init /\ [][Next]_vars

(***************************************************************************)
(* database_manager.py: the next start of the program on the same file.    *)
(***************************************************************************)
\* A schema initialization whose INSERT of the default category is not held
\* back by the UNIQUE constraint.
CreateTablesAlwaysInsert(rows, seq) == CategoryAddNotUnique(rows, seq, <<"Outros">>)

\* _create_tables_if_not_exists on the rows of table categories: CREATE TABLE
\* IF NOT EXISTS keeps both tables and their rows; INSERT INTO categories
\* (name) VALUES ('Outros') fails on UNIQUE when the name is there, and the
\* IntegrityError is passed over
CreateTablesIfNotExists(rows, seq) == CategoryAdd(rows, seq, <<"Outros">>)

\* DatabaseManager() in a new process: the first call of __new__ connects to
\* finance_tracker.db and runs _create_tables_if_not_exists; the EventManager
\* of the process is new and wired as before
DatabaseManagerNew ==
    LET ini == CreateTablesIfNotExists(categories, catSeq)
    IN  /\ ini.seq <= MaxCat + 2
        /\ categories' = ini.rows
        /\ catSeq' = ini.seq
        /\ dispatch' = NoDispatch
        /\ last' = [op |-> "create_tables", args |-> <<>>, result |-> "None",
                    trace |-> IF ini.ok THEN <<"stored">> ELSE <<"ignored">>]
        /\ UNCHANGED <<listeners, transactions, txSeq, reportVars, db, ui>>

(***************************************************************************)
(* reporting_strategy.py: the report strategies on pandas.                 *)
(*                                                                         *)
(* A record is one dict of the list get_transactions_for_report returns.   *)
(* Its amount is Num(v), v in hundredths (column amount REAL); its date is *)
(* the tuple of its characters; its category is Str(s), s the tuple of the *)
(* characters of the string, or None (column category TEXT admits NULL,    *)
(* and neither register_transaction nor Transaction.__init__ looks at the  *)
(* category).                                                              *)
(***************************************************************************)
\* Records in one input list.
MaxRecords == 3

None == [na |-> TRUE, s |-> <<>>]
Str(s) == [na |-> FALSE, s |-> s]

Record(ty, am, da, ca) == [type |-> ty, amount |-> am, date |-> da, category |-> ca]

\* The records the model draws input lists from: the three records of the
\* scenario of the specification, an income that cancels an expense of its
\* month under a category that differs in case only, and records without a
\* category in a later and in an earlier month.
RecordInputs ==
    { Record("income", Num(100000), Date("2","0","2","5","-","0","1","-","1","0"),
             Str(<<"W","o","r","k">>)),
      Record("expense", Num(20000), Date("2","0","2","5","-","0","1","-","1","5"),
             Str(<<"F","o","o","d">>)),
      Record("expense", Num(5000), Date("2","0","2","5","-","0","2","-","0","1"),
             Str(<<"F","o","o","d">>)),
      Record("income", Num(5000), Date("2","0","2","5","-","0","2","-","2","8"),
             Str(<<"f","o","o","d">>)),
      Record("income", Num(5), Date("2","0","2","5","-","1","1","-","2","0"), None),
      Record("expense", Num(20000), Date("2","0","2","4","-","1","2","-","3","1"), None) }

RecordLists == UNION {[1..n -> RecordInputs] : n \in 0..MaxRecords}

\* ord(c) of the characters the model uses
Ord(c) ==
    CASE c \in Digits -> 48 + DigitVal(c)
      [] c = " " -> 32 [] c = "-" -> 45 [] c = "F" -> 70 [] c = "O" -> 79 [] c = "W" -> 87
      [] c = "d" -> 100 [] c = "f" -> 102 [] c = "k" -> 107 [] c = "o" -> 111
      [] c = "r" -> 114 [] c = "s" -> 115 [] c = "t" -> 116 [] c = "u" -> 117
      [] OTHER -> 0

\* a < b on Python strings: lexicographic by code point
RECURSIVE StrLess(_, _)
StrLess(a, b) ==
    IF b = <<>> THEN FALSE
    ELSE IF a = <<>> THEN TRUE
    ELSE IF Ord(Head(a)) # Ord(Head(b)) THEN Ord(Head(a)) < Ord(Head(b))
    ELSE StrLess(Tail(a), Tail(b))

\* The strings of a set in ascending order.
RECURSIVE SortStrings(_)
SortStrings(S) ==
    IF S = {} THEN <<>>
    ELSE LET least == CHOOSE x \in S : \A y \in S \ {x} : StrLess(x, y)
         IN  <<least>> \o SortStrings(S \ {least})

\* pd.to_numeric(df['amount'], errors='coerce').fillna(0) on one value: what
\* is no number becomes NaN and then 0
ToNumeric(a) == IF a.t = "num" THEN a.v ELSE 0

\* Series.sum() of the amounts of the rows of a frame
RECURSIVE SumAmount(_)
SumAmount(df) ==
    IF df = <<>> THEN 0 ELSE ToNumeric(Head(df).amount) + SumAmount(Tail(df))

\* df[df['type'] == kind]
OfType(df, kind) == LET Keep(r) == r.type = kind IN SelectSeq(df, Keep)

\* df.groupby('category')['amount'].sum().reset_index(): one row per key in
\* ascending order of the keys (sort=True); rows whose key is NA belong to no
\* group (dropna=True)
GroupByCategory(df) ==
    LET keys == {df[i].category.s : i \in {j \in 1..Len(df) : ~df[j].category.na}}
        sorted == SortStrings(keys)
        Of(k) == LET Keep(r) == ~r.category.na /\ r.category.s = k IN SelectSeq(df, Keep)
    IN  [i \in 1..Len(sorted) |-> [category |-> sorted[i], amount |-> SumAmount(Of(sorted[i]))]]

\* float_format="%.2f" of a value in hundredths: sign, integer part, two decimals
Format2(v) ==
    LET a == IF v < 0 THEN 0 - v ELSE v
    IN  [neg |-> v < 0, int |-> a \div 100, frac |-> a % 100]

\* One printed row of DataFrame.to_string: the key and the formatted value.
Printed(key, v) == [key |-> key, value |-> Format2(v)]

\* The text of a report: its first line and its blocks of rows, each under
\* its title; a message is a text without blocks.
Text(head, sections) == [head |-> head, sections |-> sections]
Section(title, rows) == [title |-> title, rows |-> rows]

NoCategoryData == Text("Nenhuma transação para gerar relatório por categoria.", <<>>)

\* CategoryReportStrategy.generate_report
CategoryGenerateReport(transactions_data) ==
    IF transactions_data = <<>> THEN NoCategoryData
    ELSE LET income_by_category == GroupByCategory(OfType(transactions_data, "income"))
             expense_by_category == GroupByCategory(OfType(transactions_data, "expense"))
             Rows(g) == [i \in 1..Len(g) |-> Printed(g[i].category, g[i].amount)]
             income == IF income_by_category # <<>>
                       THEN <<Section("Receitas por Categoria:", Rows(income_by_category))>>
                       ELSE <<>>
             expense == IF expense_by_category # <<>>
                        THEN <<Section("Despesas por Categoria:", Rows(expense_by_category))>>
                        ELSE <<>>
         IN  IF income_by_category = <<>> /\ expense_by_category = <<>>
             THEN NoCategoryData
             ELSE Text("--- Relatório por Categoria ---", income \o expense)

\* A DataFrame: its column labels and its rows.
Frame(columns, rows) == [columns |-> columns, rows |-> rows]

\* A get_report_data of the category strategy that concatenates the expenses
\* before the incomes.
CategoryGetReportDataExpenseFirst(transactions_data) ==
    IF transactions_data = <<>> THEN Frame(<<"Categoria", "Tipo", "Valor">>, <<>>)
    ELSE LET income_df == GroupByCategory(OfType(transactions_data, "income"))
             expense_df == GroupByCategory(OfType(transactions_data, "expense"))
             Rows(g, type) ==
                 [i \in 1..Len(g) |->
                     [Categoria |-> g[i].category, Valor |-> g[i].amount, Tipo |-> type]]
         IN  Frame(<<"Categoria", "Valor", "Tipo">>,
                   Rows(expense_df, "Despesa") \o Rows(income_df, "Receita"))

\* CategoryReportStrategy.get_report_data
CategoryGetReportData(transactions_data) ==
    IF transactions_data = <<>> THEN Frame(<<"Categoria", "Tipo", "Valor">>, <<>>)
    ELSE LET income_df == GroupByCategory(OfType(transactions_data, "income"))
             expense_df == GroupByCategory(OfType(transactions_data, "expense"))
             Rows(g, type) ==
                 [i \in 1..Len(g) |->
                     [Categoria |-> g[i].category, Valor |-> g[i].amount, Tipo |-> type]]
         IN  Frame(<<"Categoria", "Valor", "Tipo">>,
                   Rows(income_df, "Receita") \o Rows(expense_df, "Despesa"))

\* pd.to_datetime of a string of the form YYYY-MM-DD or YYYY-MM
ToDatetime(s) ==
    [y |-> TokenVal(SubSeq(s, 1, 4)), m |-> TokenVal(SubSeq(s, 6, 7)),
     d |-> IF Len(s) >= 10 THEN TokenVal(SubSeq(s, 9, 10)) ELSE 1]

\* Series.dt.to_period('M')
ToPeriod(t) == [y |-> t.y, m |-> t.m]

\* The position of a Period in the order of the months.
PeriodOrd(p) == p.y * 12 + (p.m - 1)

\* The position of a Timestamp in the order of the days.
DayOrd(t) == (t.y * 12 + (t.m - 1)) * 31 + (t.d - 1)

DigitChar(n) == CHOOSE c \in Digits : DigitVal(c) = n

\* str(Period): YYYY-MM
PeriodStr(p) ==
    <<DigitChar(p.y \div 1000), DigitChar((p.y \div 100) % 10),
      DigitChar((p.y \div 10) % 10), DigitChar(p.y % 10), "-",
      DigitChar(p.m \div 10), DigitChar(p.m % 10)>>

\* A signed amount that keeps the sign of an expense positive.
SignedAmountUnsigned(row) == ToNumeric(row.amount)

\* lambda row: row['amount'] if row['type'] == 'income' else -row['amount']
SignedAmount(row) ==
    IF row.type = "income" THEN ToNumeric(row.amount) ELSE 0 - ToNumeric(row.amount)

\* Series.sum() of the signed amounts of the rows of a frame
RECURSIVE SumSigned(_)
SumSigned(df) ==
    IF df = <<>> THEN 0 ELSE Head(df).signed_amount + SumSigned(Tail(df))

\* The Periods of a set in ascending order.
RECURSIVE SortPeriods(_)
SortPeriods(S) ==
    IF S = {} THEN <<>>
    ELSE LET least == CHOOSE x \in S : \A y \in S \ {x} : PeriodOrd(x) < PeriodOrd(y)
         IN  <<least>> \o SortPeriods(S \ {least})

\* The keys of a frame in the order in which they first appear.
RECURSIVE FirstSeen(_)
FirstSeen(df) ==
    IF df = <<>> THEN <<>>
    ELSE LET before == FirstSeen(SubSeq(df, 1, Len(df) - 1))
             key == df[Len(df)].month
         IN  IF InList(key, before) THEN before ELSE Append(before, key)

\* The rows of a frame grouped by month, one row per key of `keys`, in its order.
Grouped(df, keys) ==
    LET Of(k) == LET Keep(r) == r.month = k IN SelectSeq(df, Keep)
    IN  [i \in 1..Len(keys) |-> [Mes |-> keys[i], Balanco_Total |-> SumSigned(Of(keys[i]))]]

\* A groupby('month') that keeps the keys in the order of the input (sort=False).
GroupByMonthUnsorted(df) == Grouped(df, FirstSeen(df))

\* df.groupby('month')['signed_amount'].sum().reset_index() on a month column
\* of Periods: one row per month in ascending order of the Periods
GroupByMonth(df) == Grouped(df, SortPeriods({df[i].month : i \in 1..Len(df)}))

\* The same on a month column of strings: ascending order of the strings.
GroupByMonthStr(df) == Grouped(df, SortStrings({df[i].month : i \in 1..Len(df)}))

\* monthly_balance.sort_values(by='Mês_Sort'), Mês_Sort = pd.to_datetime(Mês)
RECURSIVE SortValues(_)
SortValues(rows) ==
    IF rows = <<>> THEN <<>>
    ELSE LET k == CHOOSE i \in 1..Len(rows) :
                      \A j \in 1..Len(rows) :
                          \/ DayOrd(ToDatetime(rows[i].Mes)) < DayOrd(ToDatetime(rows[j].Mes))
                          \/ (DayOrd(ToDatetime(rows[i].Mes)) = DayOrd(ToDatetime(rows[j].Mes))
                                /\ i <= j)
             rest == [j \in 1..(Len(rows) - 1) |-> IF j < k THEN rows[j] ELSE rows[j + 1]]
         IN  <<rows[k]>> \o SortValues(rest)

NoMonthlyData == Text("Nenhuma transação para gerar relatório mensal.", <<>>)

\* A generate_report of the monthly strategy without its check of the empty list.
MonthlyGenerateReportUnguarded(transactions_data) ==
    LET df == [i \in 1..Len(transactions_data) |->
                  [month |-> ToPeriod(ToDatetime(transactions_data[i].date)),
                   signed_amount |-> SignedAmount(transactions_data[i])]]
        monthly_balance == GroupByMonth(df)
    IN  Text("--- Relatório Mensal ---",
             <<Section("Mês Balanço Total",
                       [i \in 1..Len(monthly_balance) |->
                           Printed(PeriodStr(monthly_balance[i].Mes),
                                   monthly_balance[i].Balanco_Total)])>>)

\* MonthlyReportStrategy.generate_report
MonthlyGenerateReport(transactions_data) ==
    IF transactions_data = <<>> THEN NoMonthlyData
    ELSE LET df == [i \in 1..Len(transactions_data) |->
                       [month |-> ToPeriod(ToDatetime(transactions_data[i].date)),
                        signed_amount |-> SignedAmount(transactions_data[i])]]
             monthly_balance == GroupByMonth(df)
         IN  Text("--- Relatório Mensal ---",
                  <<Section("Mês Balanço Total",
                            [i \in 1..Len(monthly_balance) |->
                                Printed(PeriodStr(monthly_balance[i].Mes),
                                        monthly_balance[i].Balanco_Total)])>>)

\* MonthlyReportStrategy.get_report_data
MonthlyGetReportData(transactions_data) ==
    IF transactions_data = <<>> THEN Frame(<<"Mês", "Balanço Total">>, <<>>)
    ELSE LET df == [i \in 1..Len(transactions_data) |->
                       [month |-> PeriodStr(ToPeriod(ToDatetime(transactions_data[i].date))),
                        signed_amount |-> SignedAmount(transactions_data[i])]]
             monthly_balance == GroupByMonthStr(df)
         IN  Frame(<<"Mês", "Balanço Total">>, SortValues(monthly_balance))

(***************************************************************************)
(* ReportGenerator                                                         *)
(***************************************************************************)
\* The strategies: CategoryReportStrategy() and MonthlyReportStrategy().
Strategies == {"category", "monthly"}

\* An execute_report_generation that keeps to the category strategy.
ExecuteReportGenerationFixed(s, transactions_data) ==
    CategoryGenerateReport(transactions_data)

\* self._strategy.generate_report(transactions_data)
ExecuteReportGenerationRun(s, transactions_data) ==
    IF s = "category" THEN CategoryGenerateReport(transactions_data)
    ELSE MonthlyGenerateReport(transactions_data)

\* self._strategy.get_report_data(transactions_data)
GetReportDataRun(s, transactions_data) ==
    IF s = "category" THEN CategoryGetReportData(transactions_data)
    ELSE MonthlyGetReportData(transactions_data)

\* ReportGenerator.set_strategy(strategy): `ctor` is the strategy the
\* generator was constructed with, `set` the strategy last given to it, `out`
\* the result of the last aggregation that ran
SetStrategy(s) ==
    /\ strategy' = s
    /\ report' = [report EXCEPT !.op = "set_strategy", !.set = s]
    /\ UNCHANGED <<listeners, dispatch, storeVars, last, db, ui, records>>

\* ReportGenerator.execute_report_generation(transactions_data)
ExecuteReportGeneration ==
    /\ report' = [report EXCEPT !.op = "execute_report_generation",
                                 !.out = ExecuteReportGenerationRun(strategy, records)]
    /\ UNCHANGED <<listeners, dispatch, storeVars, last, db, ui, records, strategy>>

\* ReportGenerator.get_report_data(transactions_data)
GetReportData ==
    /\ report' = [report EXCEPT !.op = "get_report_data",
                                 !.out = GetReportDataRun(strategy, records)]
    /\ UNCHANGED <<listeners, dispatch, storeVars, last, db, ui, records, strategy>>

\* ReportGenerator(strategy) on a list of records; no bus, no store.
InitReport ==
    /\ listeners = NoListeners
    /\ dispatch = NoDispatch
    /\ transactions = {}
    /\ txSeq = 0
    /\ categories = {}
    /\ catSeq = 0
    /\ last = NoCall
    /\ records \in RecordLists
    /\ strategy \in Strategies
    /\ report = [op |-> "none", ctor |-> strategy, set |-> strategy, out |-> NoOutput]
    /\ NoHost

NextReport ==
    \/ \E s \in Strategies : SetStrategy(s)
    \/ ExecuteReportGeneration
    \/ GetReportData

SpecReport == InitReport /\ [][NextReport]_vars

(***************************************************************************)
(* The queries of the facade on table transactions.  A bound of a query is *)
(* a string, the tuple of its characters, or absent: None and the empty    *)
(* string, which `if start_date and end_date` takes alike, are both <<>>.  *)
(***************************************************************************)
\* The bounds the model queries with: none, 2025-01-01 to 2025-01-31, a
\* single day, a lower bound alone, and bounds in the wrong order.
QueryInputs ==
    LET jan01 == Date("2","0","2","5","-","0","1","-","0","1")
        jan10 == Date("2","0","2","5","-","0","1","-","1","0")
        jan31 == Date("2","0","2","5","-","0","1","-","3","1")
    IN  {<<<<>>, <<>>>>, <<jan01, jan31>>, <<jan10, jan10>>, <<jan01, <<>>>>, <<jan31, jan01>>}

\* The orders in which a SELECT may return the rows of a set.
Orders(rows) ==
    {f \in [1..Cardinality(rows) -> rows] : \A i, j \in DOMAIN f : f[i] = f[j] => i = j}

\* ORDER BY date DESC on column date TEXT: the strings compared byte by byte
\* (collation BINARY), rows of equal date in any order
OrderByDateDesc(rows) ==
    {f \in Orders(rows) : \A i, j \in DOMAIN f : i < j => ~StrLess(f[i].date, f[j].date)}

\* TransactionRepository.get_all
GetAll(rows) == OrderByDateDesc(rows)

\* TransactionRepository.get_transactions_by_period: WHERE date BETWEEN ? AND ?
GetTransactionsByPeriod(rows, start_date, end_date) ==
    OrderByDateDesc({r \in rows : ~StrLess(r.date, start_date) /\ ~StrLess(end_date, r.date)})

\* get_transactions_for_report(start_date, end_date): the lists it may return
GetTransactionsForReportRun(rows, start_date, end_date) ==
    IF start_date # <<>> /\ end_date # <<>>
    THEN GetTransactionsByPeriod(rows, start_date, end_date)
    ELSE GetAll(rows)

\* TransactionService.get_transactions_for_report: the bus is not called
GetTransactionsForReport(start_date, end_date) ==
    \E result \in GetTransactionsForReportRun(transactions, start_date, end_date) :
        /\ last' = [op |-> "get_transactions_for_report",
                    args |-> [start_date |-> start_date, end_date |-> end_date],
                    result |-> result, trace |-> <<>>]
        /\ dispatch' = NoDispatch
        /\ UNCHANGED <<listeners, storeVars, reportVars, db, ui>>

\* The store under the facade over several runs of the program, no view
\* subscribed.
InitStore ==
    /\ listeners = Wire(NoListeners, EventTypes, <<>>)
    /\ dispatch = NoDispatch
    /\ transactions = {}
    /\ txSeq = 0
    /\ categories = {[id |-> 1, name |-> <<"Outros">>]}
    /\ catSeq = 1
    /\ last = NoCall
    /\ NoReporting
    /\ NoHost

NextStore ==
    \/ DatabaseManagerNew
    \/ \E q \in QueryInputs : GetTransactionsForReport(q[1], q[2])
    \/ \E a \in TxInputs : RegisterTransaction(a)
    \/ \E id \in TxIdInputs : DeleteTransaction(id)
    \/ \E name \in NameInputs : AddCategory(name)
    \/ \E id \in CatIdInputs, name \in NameInputs : UpdateCategory(id, name)
    \/ \E id \in CatIdInputs : DeleteCategory(id)

SpecStore == InitStore /\ [][NextStore]_vars

(***************************************************************************)
(* database_manager.py: class DatabaseManager as a singleton.              *)
(*                                                                         *)
(* Managers and connections are numbered in the order in which they are    *)
(* made, 0 is None.  `instance` and `connection` are the class attributes  *)
(* _instance and _connection; `hidden` are the managers on which           *)
(* close_connection has set the instance attribute _connection to None,    *)
(* which hides the class attribute; `opened` counts the connections        *)
(* sqlite3.connect has returned, `closes` are the connections on which     *)
(* close() was called, in order; `made` counts the objects __new__ has     *)
(* created, `held` are the managers a construction has returned, and       *)
(* `constructed` is every value a construction has returned; `repos` are   *)
(* the values of self.conn of the repositories constructed so far.         *)
(***************************************************************************)
\* Objects DatabaseManager.__new__ creates in one behaviour.
MaxManagers == 3

\* What the try block of __new__ meets: no error, an sqlite3.Error of
\* sqlite3.connect (the file cannot be opened), or an sqlite3.Error of
\* _create_tables_if_not_exists on the connection sqlite3.connect has
\* returned (the file is not a database, the database is locked).
Outcomes(d) ==
    IF d.instance # 0 THEN {"ok"} ELSE {"ok", "connect_fails", "create_fails"}

\* The class as the module is imported.
NewDb ==
    [instance |-> 0, connection |-> 0, hidden |-> {}, opened |-> 0, closes |-> <<>>,
     made |-> 0, held |-> {}, constructed |-> {}, repos |-> {},
     op |-> "none", returned |-> 0]

\* DatabaseManager(): the class after __new__ has run
DatabaseManagerCall(d, outcome) ==
    IF d.instance # 0
    THEN [d EXCEPT !.constructed = d.constructed \cup {d.instance},
                   !.op = "new", !.returned = d.instance]
    ELSE LET m == d.made + 1
             c == d.opened + 1
         IN  CASE outcome = "ok" ->
                    [d EXCEPT !.instance = m, !.made = m, !.connection = c, !.opened = c,
                              !.held = d.held \cup {m},
                              !.constructed = d.constructed \cup {m},
                              !.op = "new", !.returned = m]
               [] outcome = "connect_fails" ->
                    [d EXCEPT !.made = m, !.constructed = d.constructed \cup {0},
                              !.op = "new", !.returned = 0]
               [] OTHER ->
                    [d EXCEPT !.made = m, !.connection = c, !.opened = c,
                              !.constructed = d.constructed \cup {0},
                              !.op = "new", !.returned = 0]

\* self._connection as manager m reads it
ConnectionOf(d, m) == IF m \in d.hidden THEN 0 ELSE d.connection

\* DatabaseManager()
DatabaseManagerCalled(outcome) ==
    /\ db.instance = 0 => db.made < MaxManagers
    /\ db' = DatabaseManagerCall(db, outcome)
    /\ UNCHANGED <<listeners, dispatch, storeVars, last, reportVars, ui>>

\* TransactionRepository() and CategoryRepository(): self.db_manager =
\* DatabaseManager(), self.conn = self.db_manager.get_connection(); on None
\* the second line raises AttributeError and no repository is made
RepositoryNew(outcome) ==
    LET d == DatabaseManagerCall(db, outcome)
    IN  /\ db.instance = 0 => db.made < MaxManagers
        /\ db' = IF d.returned = 0
                 THEN [d EXCEPT !.op = "repository"]
                 ELSE [d EXCEPT !.op = "repository",
                                !.repos = d.repos \cup {ConnectionOf(d, d.returned)}]
        /\ UNCHANGED <<listeners, dispatch, storeVars, last, reportVars, ui>>

\* manager.get_connection()
GetConnection(m) ==
    /\ m \in db.held
    /\ db' = [db EXCEPT !.op = "get_connection", !.returned = ConnectionOf(db, m)]
    /\ UNCHANGED <<listeners, dispatch, storeVars, last, reportVars, ui>>

\* manager.close_connection()
CloseConnection(m) ==
    /\ m \in db.held
    /\ db' = IF ConnectionOf(db, m) # 0
             THEN [db EXCEPT !.closes = Append(db.closes, ConnectionOf(db, m)),
                             !.hidden = db.hidden \cup {m},
                             !.op = "close_connection", !.returned = 0]
             ELSE [db EXCEPT !.op = "close_connection", !.returned = 0]
    /\ UNCHANGED <<listeners, dispatch, storeVars, last, reportVars, ui>>

\* One process from the import of database_manager on.
InitDb ==
    /\ listeners = NoListeners
    /\ dispatch = NoDispatch
    /\ transactions = {}
    /\ txSeq = 0
    /\ categories = {}
    /\ catSeq = 0
    /\ last = NoCall
    /\ NoReporting
    /\ db = NewDb
    /\ ui = NoCall

NextDb ==
    \/ \E outcome \in Outcomes(db) : DatabaseManagerCalled(outcome)
    \/ \E outcome \in Outcomes(db) : RepositoryNew(outcome)
    \/ \E m \in 1..MaxManagers : GetConnection(m)
    \/ \E m \in 1..MaxManagers : CloseConnection(m)

SpecDb == InitDb /\ [][NextDb]_vars

(***************************************************************************)
(* The bus under listeners that call it back while it dispatches.          *)
(*                                                                         *)
(* notify runs `for listener in self._listeners[event_type]` on the list   *)
(* object itself: the iterator of a Python list keeps a position and looks *)
(* at the length of the list before every step, and subscribe and          *)
(* unsubscribe change that same object with append and remove.  A run of   *)
(* notify is a record: the registry `ls` after it and `trace`, what        *)
(* happened in order.                                                      *)
(***************************************************************************)
\* The listeners of this specification; none of them raises.  Called under
\* event type ev, "probe" does nothing, "once" unsubscribes itself from ev,
\* "killer" unsubscribes "probe" from ev, "adder" subscribes "probe" to ev,
\* and "nester" calls notify("transaction_deleted").
ReentrantCallbacks == {"probe", "once", "killer", "adder", "nester"}

\* The listeners subscribed under an event type: "nester" is kept out of
\* the list of the event it notifies (a recursion without end otherwise),
\* and that list takes the listeners that change a list from its front.
Subscribable(ev) ==
    IF ev = "transaction_added" THEN ReentrantCallbacks ELSE {"probe", "once"}

\* One entry of a trace: k is "notify" (notify starts, `list` is the list
\* registered under ev), "call" and "return" (listener cb is called under ev
\* and returns), "subscribe" and "unsubscribe" (cb was appended to or removed
\* from the list of ev), "done" (notify returns).
Logged(st, k, ev, cb, list) ==
    [st EXCEPT !.trace = Append(@, [k |-> k, ev |-> ev, cb |-> cb, list |-> list])]

\* subscribe(ev, cb) called by a listener
SubscribeDuring(st, ev, cb) ==
    IF InList(cb, ListOf(st.ls, ev))
    THEN st
    ELSE Logged([st EXCEPT !.ls = SubscribeTo(@, ev, cb)], "subscribe", ev, cb, <<>>)

\* unsubscribe(ev, cb) called by a listener
UnsubscribeDuring(st, ev, cb) ==
    IF InList(cb, ListOf(st.ls, ev))
    THEN Logged([st EXCEPT !.ls = UnsubscribeFrom(@, ev, cb)], "unsubscribe", ev, cb, <<>>)
    ELSE st

RECURSIVE NotifyDuring(_, _)
RECURSIVE ListenerCall(_, _, _)

\* The for loop of notify at position i of the list as it is now.
RECURSIVE LiveLoop(_, _, _)
LiveLoop(st, ev, i) ==
    IF i > Len(st.ls[ev])
    THEN st
    ELSE LET cb == st.ls[ev][i]
             called == ListenerCall(Logged(st, "call", ev, cb, <<>>), ev, cb)
         IN  LiveLoop(Logged(called, "return", ev, cb, <<>>), ev, i + 1)

\* notify(ev) called by the host or by a listener
NotifyDuring(st, ev) ==
    LET begun == Logged(st, "notify", ev, "none", ListOf(st.ls, ev))
        ended == IF ev \in DOMAIN st.ls THEN LiveLoop(begun, ev, 1) ELSE begun
    IN  Logged(ended, "done", ev, "none", <<>>)

\* listener(data) for listener cb called under ev
ListenerCall(st, ev, cb) ==
    CASE cb = "once" -> UnsubscribeDuring(st, ev, "once")
      [] cb = "killer" -> UnsubscribeDuring(st, ev, "probe")
      [] cb = "adder" -> SubscribeDuring(st, ev, "probe")
      [] cb = "nester" -> NotifyDuring(st, "transaction_deleted")
      [] OTHER -> st

\* notify(event_type): the listeners run and may change the registry
ReentrantNotify(ev) ==
    LET run == NotifyDuring([ls |-> listeners, trace |-> <<>>], ev)
    IN  /\ listeners' = run.ls
        /\ dispatch' = [NoDispatch EXCEPT !.op = "notify", !.ev = ev,
                                          !.before = ListOf(listeners, ev),
                                          !.calls = run.trace]
        /\ UNCHANGED <<storeVars, last, reportVars, db, ui>>

NextReentrant ==
    \/ \E ev \in BusEvents : \E cb \in Subscribable(ev) : Subscribe(ev, cb)
    \/ \E ev \in BusEvents : \E cb \in Subscribable(ev) : Unsubscribe(ev, cb)
    \/ \E ev \in BusEvents : ReentrantNotify(ev)

SpecReentrant == InitBus /\ [][NextReentrant]_vars

(***************************************************************************)
(* ui.py: MainApplication and its views on the bus and on the facade.      *)
(*                                                                         *)
(* The views are numbered in the order in which they are constructed; the  *)
(* view on display is the one constructed last, every earlier one has been *)
(* destroyed.  A listener is a bound method: the view it belongs to and    *)
(* the name of the method; the bound methods of two views are not equal.   *)
(* `ui` holds the class and the number of the view on display and `shown`, *)
(* what its widgets show.  The facade is called by the view on display or  *)
(* by any other client while a view is on display.                         *)
(***************************************************************************)
\* Views MainApplication constructs in one behaviour.
MaxViews == 2

Views == {"HomeView", "TransactionEntryView", "TransactionListView",
          "CategoryManagerView", "ReportView"}

\* The method a view subscribes and the event types it subscribes it to, in
\* the order of its __init__.
MethodOf(view) ==
    CASE view = "HomeView" -> "update_balance"
      [] view = "TransactionListView" -> "load_transactions"
      [] view = "ReportView" -> "generate_report"
      [] OTHER -> "load_categories"

EventsOf(view) ==
    IF view \in {"HomeView", "TransactionListView", "ReportView"}
    THEN <<"transaction_added", "transaction_deleted">>
    ELSE <<"category_added", "category_updated", "category_deleted">>

\* The subscribe calls of the __init__ of a view
RECURSIVE SubscribeView(_, _, _)
SubscribeView(ls, evs, cb) ==
    IF evs = <<>> THEN ls
    ELSE SubscribeView(SubscribeTo(ls, Head(evs), cb), Tail(evs), cb)

\* The facade's inputs while a view is on display.
UiTxInputs ==
    {a \in TxInputs : a.amount = Num(10) /\ a.date = Date("2","0","2","5","-","0","1","-","1","0")}
UiNameInputs == {<<"Food">>, <<"Outros">>}
UiCatIdInputs == {PyInt(1), PyInt(2)}

\* sum(t['amount'] for t in transactions if t['type'] == kind)
RECURSIVE SumOfType(_, _)
SumOfType(rows, kind) ==
    IF rows = {} THEN 0
    ELSE LET r == CHOOSE x \in rows : TRUE
         IN  (IF r.type = kind THEN r.amount.v ELSE 0) + SumOfType(rows \ {r}, kind)

\* An update_balance that shows the income alone.
UpdateBalanceIncome(rows) ==
    {[kind |-> "balance", v |-> Format2(100 * SumOfType(rows, "income"))]}

\* HomeView.update_balance: the label shows f"{current_balance:,.2f}", the
\* balance rounded to hundredths
UpdateBalance(rows) ==
    {[kind |-> "balance",
      v |-> Format2(100 * (SumOfType(rows, "income") - SumOfType(rows, "expense")))]}

\* The first character of the names the model stores, as ORDER BY name ASC
\* compares them.
NameKey(name) ==
    CASE name = <<"Food">> -> Ord("F") [] name = <<"Outros">> -> Ord("O") [] OTHER -> Ord(" ")

\* CategoryRepository.get_all: SELECT id, name FROM categories ORDER BY name ASC
CategoryGetAll(rows) ==
    {f \in Orders(rows) : \A i, j \in DOMAIN f : i < j => NameKey(f[i].name) <= NameKey(f[j].name)}

\* CategoryManagerView.load_categories: the tree is emptied and gets one row
\* (id, name) for every category
LoadCategories(rows) ==
    {[kind |-> "categories", v |-> [i \in DOMAIN f |-> <<f[i].id, f[i].name>>]] :
        f \in CategoryGetAll(rows)}

\* TransactionEntryView.load_categories: the values of the combobox
LoadCategoryNames(rows) ==
    {[kind |-> "category_names", v |-> [i \in DOMAIN f |-> f[i].name]] :
        f \in CategoryGetAll(rows)}

\* The entries "De" and "Até" of TransactionListView and of ReportView hold
\* today minus 365 days and today; the clock of the model reads 2025-12-31.
DateEntries ==
    <<Date("2","0","2","4","-","1","2","-","3","1"), Date("2","0","2","5","-","1","2","-","3","1")>>

\* TransactionListView.load_transactions: one row of the tree per transaction
\* of the period
LoadTransactions(rows) ==
    {[kind |-> "transactions",
      v |-> [i \in DOMAIN f |->
                <<f[i].id, IF f[i].type = "income" THEN "Receita" ELSE "Despesa",
                  Format2(100 * f[i].amount.v), f[i].date, f[i].description, f[i].category>>]] :
        f \in GetTransactionsForReportRun(rows, DateEntries[1], DateEntries[2])}

\* ReportView.generate_report with the strategy of its __init__; a row of
\* table transactions is a record of the strategies with its amount in
\* hundredths and its category 'Outros' by its characters
GenerateReport(rows) ==
    {[kind |-> "report",
      v |-> ExecuteReportGenerationRun(
                "category",
                [i \in DOMAIN f |->
                    Record(f[i].type, Num(100 * f[i].amount.v), f[i].date,
                           Str(<<"O", "u", "t", "r", "o", "s">>))])] :
        f \in GetTransactionsForReportRun(rows, DateEntries[1], DateEntries[2])}

\* What the subscribed method of a view puts on display, on a store.
Shows(view, txs, cats) ==
    CASE view = "HomeView" -> UpdateBalance(txs)
      [] view = "TransactionListView" -> LoadTransactions(txs)
      [] view = "ReportView" -> GenerateReport(txs)
      [] view = "CategoryManagerView" -> LoadCategories(cats)
      [] OTHER -> LoadCategoryNames(cats)

\* switch_view and show_home_view: the view on display is destroyed and a
\* view is constructed, which loads its display and subscribes its method
SwitchRegistry(ls, u, view) ==
    SubscribeView(ls, EventsOf(view),
                  [view |-> view, inst |-> u.inst + 1, method |-> MethodOf(view)])

\* MainApplication.show_home_view
ShowHomeView ==
    /\ ui.inst < MaxViews
    /\ \E shown \in Shows("HomeView", transactions, categories) :
          ui' = [view |-> "HomeView", inst |-> ui.inst + 1, shown |-> shown]
    /\ listeners' = SwitchRegistry(listeners, ui, "HomeView")
    /\ dispatch' = NoDispatch
    /\ last' = NoCall
    /\ UNCHANGED <<storeVars, reportVars, db>>

\* MainApplication.switch_view(new_view_class)
SwitchView(view) ==
    /\ ui.inst < MaxViews
    /\ \E shown \in Shows(view, transactions, categories) :
          ui' = [view |-> view, inst |-> ui.inst + 1, shown |-> shown]
    /\ listeners' = SwitchRegistry(listeners, ui, view)
    /\ dispatch' = NoDispatch
    /\ last' = NoCall
    /\ UNCHANGED <<storeVars, reportVars, db>>

\* The registry as notify meets it: the bound method of the view on display
\* returns, that of a destroyed view raises tkinter.TclError on its first
\* widget call; a bound method has a __name__.
AsCallbacks(ls, u) ==
    [e \in DOMAIN ls |->
        [i \in 1..Len(ls[e]) |-> IF ls[e][i].inst = u.inst THEN "probe" ELSE "raiser"]]

\* The history of the notify of a run, with the bound methods it called.
BoundDispatch(ls, dsp) ==
    IF dsp.op # "notify" THEN dsp
    ELSE [dsp EXCEPT !.before = ListOf(ls, dsp.ev),
                     !.calls = [i \in 1..Len(dsp.calls) |->
                                   Call(ListOf(ls, dsp.ev)[i], dsp.calls[i].data)]]

\* The display after a run of the facade on the store txs, cats: the method
\* of the view on display has run if notify called it.
Displays(u, ls, dsp, txs, cats) ==
    IF /\ dsp.op = "notify"
       /\ \E i \in 1..Len(dsp.calls) : ListOf(ls, dsp.ev)[i].inst = u.inst
    THEN Shows(u.view, txs, cats)
    ELSE {u.shown}

\* transaction_service.register_transaction while a view is on display
UiRegisterTransaction(a) ==
    LET run == RegisterTransactionRun(AsCallbacks(listeners, ui), transactions, txSeq, a)
    IN  /\ run.seq <= MaxTx
        /\ transactions' = run.rows
        /\ txSeq' = run.seq
        /\ dispatch' = BoundDispatch(listeners, run.dispatch)
        /\ last' = CallOf("register_transaction", a, run)
        /\ \E shown \in Displays(ui, listeners, run.dispatch, run.rows, categories) :
              ui' = [ui EXCEPT !.shown = shown]
        /\ UNCHANGED <<listeners, categories, catSeq, reportVars, db>>

\* transaction_service.delete_transaction while a view is on display
UiDeleteTransaction(id) ==
    LET run == DeleteTransactionRun(AsCallbacks(listeners, ui), transactions, txSeq, id)
    IN  /\ transactions' = run.rows
        /\ dispatch' = BoundDispatch(listeners, run.dispatch)
        /\ last' = CallOf("delete_transaction", [id |-> id], run)
        /\ \E shown \in Displays(ui, listeners, run.dispatch, run.rows, categories) :
              ui' = [ui EXCEPT !.shown = shown]
        /\ UNCHANGED <<listeners, txSeq, categories, catSeq, reportVars, db>>

\* category_service.add_category while a view is on display
UiAddCategory(name) ==
    LET run == AddCategoryRun(AsCallbacks(listeners, ui), categories, catSeq, name)
    IN  /\ run.seq <= MaxCat + 1
        /\ categories' = run.rows
        /\ catSeq' = run.seq
        /\ dispatch' = BoundDispatch(listeners, run.dispatch)
        /\ last' = CallOf("add_category", [name |-> name], run)
        /\ \E shown \in Displays(ui, listeners, run.dispatch, transactions, run.rows) :
              ui' = [ui EXCEPT !.shown = shown]
        /\ UNCHANGED <<listeners, transactions, txSeq, reportVars, db>>

\* category_service.update_category while a view is on display
UiUpdateCategory(id, name) ==
    LET run == UpdateCategoryRun(AsCallbacks(listeners, ui), categories, catSeq, id, name)
    IN  /\ categories' = run.rows
        /\ dispatch' = BoundDispatch(listeners, run.dispatch)
        /\ last' = CallOf("update_category", [id |-> id, name |-> name], run)
        /\ \E shown \in Displays(ui, listeners, run.dispatch, transactions, run.rows) :
              ui' = [ui EXCEPT !.shown = shown]
        /\ UNCHANGED <<listeners, transactions, txSeq, catSeq, reportVars, db>>

\* category_service.delete_category while a view is on display
UiDeleteCategory(id) ==
    LET run == DeleteCategoryRun(AsCallbacks(listeners, ui), categories, catSeq, id)
    IN  /\ categories' = run.rows
        /\ dispatch' = BoundDispatch(listeners, run.dispatch)
        /\ last' = CallOf("delete_category", [id |-> id], run)
        /\ \E shown \in Displays(ui, listeners, run.dispatch, transactions, run.rows) :
              ui' = [ui EXCEPT !.shown = shown]
        /\ UNCHANGED <<listeners, transactions, txSeq, catSeq, reportVars, db>>

\* main.py: the store is initialized, the bus is new, and
\* MainApplication.__init__ has shown its first HomeView.
InitUi ==
    /\ transactions = {}
    /\ txSeq = 0
    /\ categories = {[id |-> 1, name |-> <<"Outros">>]}
    /\ catSeq = 1
    /\ ui \in {[view |-> "HomeView", inst |-> 1, shown |-> shown] :
                  shown \in Shows("HomeView", {}, {})}
    /\ listeners = SwitchRegistry(NoListeners, [inst |-> 0], "HomeView")
    /\ dispatch = NoDispatch
    /\ last = NoCall
    /\ NoReporting
    /\ db = NoCall

NextUi ==
    \/ ShowHomeView
    \/ \E view \in Views \ {"HomeView"} : SwitchView(view)
    \/ \E a \in UiTxInputs : UiRegisterTransaction(a)
    \/ \E id \in {PyInt(1)} : UiDeleteTransaction(id)
    \/ \E name \in UiNameInputs : UiAddCategory(name)
    \/ \E id \in UiCatIdInputs, name \in UiNameInputs : UiUpdateCategory(id, name)
    \/ \E id \in UiCatIdInputs : UiDeleteCategory(id)

SpecUi == InitUi /\ [][NextUi]_vars


(***************************************************************************)
(* The event bus: C1, C2, C8, C9, C10 (checked under SpecBus)              *)
(***************************************************************************)
\* The calls a notify makes when it calls every listener of `list` once, in order.
AllCalled(list, data) == [i \in 1..Len(list) |-> Call(list[i], data)]

\* Claim C1: notify(event_type, data) calls every callback registered under
\* event_type at the time of the call, each exactly once, in subscription order,
\* each with the same data, after any sequence of subscribe and unsubscribe.
C1_NotifyCallsAllInOrder ==
    dispatch.op = "notify" => dispatch.calls = AllCalled(dispatch.before, dispatch.data)

\* Claim C2: when a callback fails during notify, every callback registered
\* after it under the same event type is still called and notify returns
\* normally, for any callable and any position of the failing callback.
C2_FailureIsIsolated ==
    dispatch.op = "notify" =>
        /\ ~dispatch.raised
        /\ \A i \in 1..Len(dispatch.before) :
              Raises(dispatch.before[i]) =>
                  \A j \in (i + 1)..Len(dispatch.before) :
                      Call(dispatch.before[j], dispatch.data) \in
                          {dispatch.calls[k] : k \in 1..Len(dispatch.calls)}

Without(x, s) == LET Keep(y) == y # x IN SelectSeq(s, Keep)

\* Claim C9: unsubscribe(event_type, callback) removes that callback from that
\* event type, so that a later notify does not call it; every other
\* registration and the order of the others are unchanged; nothing changes when
\* the callback or the event type is not registered.
C9_UnsubscribeFrame ==
    [][/\ dispatch'.op = "unsubscribe" =>
              /\ DOMAIN listeners' = DOMAIN listeners
              /\ \A e \in DOMAIN listeners :
                    listeners'[e] = IF e = dispatch'.ev
                                    THEN Without(dispatch'.cb, listeners[e])
                                    ELSE listeners[e]
              /\ (dispatch'.ev \notin DOMAIN listeners
                    \/ ~InList(dispatch'.cb, listeners[dispatch'.ev]))
                 => listeners' = listeners
       /\ (dispatch.op = "unsubscribe" /\ dispatch'.op = "notify"
              /\ dispatch'.ev = dispatch.ev) =>
              \A k \in 1..Len(dispatch'.calls) : dispatch'.calls[k].cb # dispatch.cb
       /\ dispatch'.op = "notify" =>
              \A cb \in Callbacks :
                  ~InList(cb, ListOf(listeners, dispatch'.ev)) =>
                      Count(Call(cb, dispatch'.data), dispatch'.calls) = 0
      ]_vars

\* C9's case: a registered callback was removed from a list that holds others,
\* while another event type has registrations too.
C9_Witness ==
    /\ dispatch.op = "unsubscribe"
    /\ InList(dispatch.cb, dispatch.before)
    /\ Len(dispatch.before) >= 2
    /\ dispatch.before[Len(dispatch.before)] # dispatch.cb
    /\ \E e \in DOMAIN listeners : e # dispatch.ev /\ InList(dispatch.cb, listeners[e])

\* Claim C10: notify on an event type with no registered callback calls
\* nothing, raises nothing and leaves the registry unchanged; notify never
\* calls a callback that is not registered under its own event type.
C10_NotifyFrame ==
    [][dispatch'.op = "notify" =>
          /\ listeners' = listeners
          /\ ListOf(listeners, dispatch'.ev) = <<>> =>
                (dispatch'.calls = <<>> /\ ~dispatch'.raised)
          /\ \A k \in 1..Len(dispatch'.calls) :
                InList(dispatch'.calls[k].cb, ListOf(listeners, dispatch'.ev))
      ]_vars

\* C10's case: a notify on an event type without a list, while callbacks are
\* registered under another event type.
C10_Witness ==
    /\ dispatch.op = "notify"
    /\ dispatch.ev \notin DOMAIN listeners
    /\ dispatch.calls = <<>>
    /\ \E e \in DOMAIN listeners : Len(listeners[e]) >= 2


(***************************************************************************)
(* The service facade: C3 .. C7 (checked under Spec)                       *)
(***************************************************************************)
\* The event type each mutation of the facade publishes.
EventOf(op) ==
    CASE op = "register_transaction" -> "transaction_added"
      [] op = "delete_transaction" -> "transaction_deleted"
      [] op = "add_category" -> "category_added"
      [] op = "update_category" -> "category_updated"
      [] op = "delete_category" -> "category_deleted"
      [] OTHER -> "none"

\* The facade call published an event.
Published(l) == \E i \in 1..Len(l.trace) : l.trace[i] = "notify"

\* What the store mutation of a call has done to the store, between the state
\* before the call (unprimed) and the state after it (primed).
Persisted(l) ==
    CASE l.op = "register_transaction" ->
            /\ txSeq' = txSeq + 1
            /\ categories' = categories
            /\ \E r \in transactions' :
                  /\ transactions' = transactions \cup {r}
                  /\ r.id = txSeq' /\ r.type = l.args.type /\ r.amount = l.args.amount
                  /\ r.date = l.args.date /\ r.category = l.args.category
      [] l.op = "delete_transaction" ->
            /\ \E r \in transactions : r.id = l.args.id.n /\ ~l.args.id.wide
            /\ transactions' = {r \in transactions : r.id # l.args.id.n}
            /\ categories' = categories
      [] l.op = "add_category" ->
            /\ catSeq' = catSeq + 1
            /\ categories' = categories \cup {[id |-> catSeq', name |-> Strip(l.args.name)]}
            /\ transactions' = transactions
      [] l.op = "update_category" ->
            /\ \E r \in categories : r.id = l.args.id.n /\ ~l.args.id.wide
            /\ [id |-> l.args.id.n, name |-> Strip(l.args.name)] \in categories'
            /\ {r.id : r \in categories'} = {r.id : r \in categories}
            /\ transactions' = transactions
      [] l.op = "delete_category" ->
            /\ \E r \in categories : r.id = l.args.id.n /\ ~l.args.id.wide
            /\ categories' = {r \in categories : r.id # l.args.id.n}
            /\ transactions' = transactions
      [] OTHER -> FALSE

\* Claim C3: every mutation of the facade publishes its event only after the
\* store mutation of the same call has succeeded: nothing is published before
\* the store call, and nothing when validation or the store call fails.
C3_PublishOnlyAfterPersist ==
    [][/\ Published(last') =>
              /\ Persisted(last')
              /\ last'.trace = <<"stored", "notify">>
              /\ dispatch'.op = "notify" /\ dispatch'.ev = EventOf(last'.op)
       /\ ~Published(last') => dispatch'.op # "notify"
       /\ (\E i \in 1..Len(last'.trace) : last'.trace[i] \in {"rejected", "store_failed"}) =>
              /\ ~Published(last')
              /\ UNCHANGED storeVars
      ]_vars

\* C3's case: a mutation was stored and then published to listeners.
C3_Witness ==
    /\ last.op = "update_category"
    /\ last.trace = <<"stored", "notify">>
    /\ Len(dispatch.calls) = 2

\* The string is a valid calendar date in YYYY-MM-DD form.
IsIsoDate(s) ==
    /\ Len(s) = 10
    /\ \A i \in {1, 2, 3, 4, 6, 7, 9, 10} : s[i] \in Digits
    /\ s[5] = "-" /\ s[8] = "-"
    /\ LET y == TokenVal(SubSeq(s, 1, 4))
           m == TokenVal(SubSeq(s, 6, 7))
           d == TokenVal(SubSeq(s, 9, 10))
       IN  y >= 1 /\ m \in 1..12 /\ d \in 1..DaysInMonth(y, m)

\* The arguments of register_transaction are valid: kind income or expense,
\* amount a number > 0, date a valid YYYY-MM-DD date.
ValidTxArgs(a) ==
    /\ a.type \in {"income", "expense"}
    /\ a.amount.t = "num" /\ a.amount.v > 0
    /\ IsIsoDate(a.date)

\* Claim C4: with a probe subscribed to transaction_added, one call of
\* register_transaction with valid data calls the probe exactly once, with the
\* new record as payload, and returns True.
C4_ValidRegisterReachesProbe ==
    (/\ last.op = "register_transaction"
     /\ ValidTxArgs(last.args)
     /\ InList("probe", ListOf(listeners, "transaction_added")))
    => /\ last.result = "True"
       /\ dispatch.op = "notify" /\ dispatch.ev = "transaction_added"
       /\ Count(Call("probe", TransactionDict(last.args)), dispatch.calls) = 1

\* Claim C5: a register_transaction whose kind, amount or date is not valid
\* returns False, inserts no row and calls no transaction_added subscriber;
\* add_category and update_category with a name that is empty after trimming
\* return False, change no category and publish nothing.
C5_InvalidIsRejected ==
    [][/\ (last'.op = "register_transaction" /\ ~ValidTxArgs(last'.args)) =>
              /\ last'.result = "False"
              /\ UNCHANGED storeVars
              /\ dispatch'.op # "notify"
       /\ (last'.op \in {"add_category", "update_category"}
              /\ Strip(last'.args.name) = <<>>) =>
              /\ last'.result = "False"
              /\ UNCHANGED storeVars
              /\ dispatch'.op # "notify"
      ]_vars

\* Claim C6: add_category with a (trimmed) name that exists in the store
\* returns False, leaves the categories unchanged and publishes no
\* category_added; so does update_category to a name held by another category.
C6_DuplicateNameRejected ==
    [][/\ (last'.op = "add_category"
              /\ \E r \in categories : r.name = Strip(last'.args.name)) =>
              /\ last'.result = "False"
              /\ UNCHANGED storeVars
              /\ dispatch'.op # "notify"
       /\ (last'.op = "update_category"
              /\ \E r \in categories :
                    /\ r.name = Strip(last'.args.name)
                    /\ (last'.args.id.wide \/ r.id # last'.args.id.n)) =>
              /\ last'.result = "False"
              /\ UNCHANGED storeVars
              /\ dispatch'.op # "notify"
      ]_vars

\* C6's case: a trimmed name that another category holds was refused by the
\* store, for a category that exists.
C6_Witness ==
    /\ last.op = "update_category"
    /\ last.args.name = <<" ", "Food", " ">>
    /\ last.trace = <<"store_failed">>
    /\ \E r \in categories : r.id = last.args.id.n /\ ~last.args.id.wide
    /\ \E r \in categories : r.name = <<"Food">> /\ r.id # last.args.id.n

\* The id names no row of the table the operation works on.
IdAbsent(op, id) ==
    LET rows == IF op = "delete_transaction" THEN transactions ELSE categories
    IN  id.wide \/ ~\E r \in rows : r.id = id.n

\* Claim C7: delete_transaction, delete_category and update_category with an
\* id that is not in the store return False without raising, leave the store
\* unchanged and publish no event.
C7_MissingIdReturnsFalse ==
    [][(last'.op \in {"delete_transaction", "delete_category", "update_category"}
          /\ IdAbsent(last'.op, last'.args.id)) =>
              /\ last'.result = "False"
              /\ UNCHANGED storeVars
              /\ dispatch'.op # "notify"
      ]_vars

(***************************************************************************)
(* The reports: C11 .. C17 (checked under SpecReport)                      *)
(***************************************************************************)
\* The sum of the amounts of the records of one kind, record by record.
RECURSIVE TotalOf(_, _, _)
TotalOf(recs, kind, n) ==
    IF n = 0 THEN 0
    ELSE TotalOf(recs, kind, n - 1) + (IF recs[n].type = kind THEN recs[n].amount.v ELSE 0)

Total(recs, kind) == TotalOf(recs, kind, Len(recs))

\* The value a printed number stands for, in hundredths.
Value(f) == IF f.neg THEN 0 - (f.int * 100 + f.frac) ELSE f.int * 100 + f.frac

\* The kind of the rows printed under a title of the category report.
KindOf(title) ==
    CASE title = "Receitas por Categoria:" -> "Receita"
      [] title = "Despesas por Categoria:" -> "Despesa"
      [] OTHER -> ""

\* The rows a text prints, block after block: key, kind, printed value.
RECURSIVE TextRows(_)
TextRows(sections) ==
    IF sections = <<>> THEN <<>>
    ELSE LET sec == Head(sections)
         IN  [i \in 1..Len(sec.rows) |->
                 [key |-> sec.rows[i].key, kind |-> KindOf(sec.title),
                  value |-> sec.rows[i].value]]
             \o TextRows(Tail(sections))

\* The rows of a frame of report data: key, kind, value.
DataRows(s, frame) ==
    [i \in 1..Len(frame.rows) |->
        IF s = "category"
        THEN [key |-> frame.rows[i].Categoria, kind |-> frame.rows[i].Tipo,
              value |-> frame.rows[i].Valor]
        ELSE [key |-> frame.rows[i].Mes, kind |-> "",
              value |-> frame.rows[i].Balanco_Total]]

\* The rows of the last report, values in hundredths, whichever operation ran.
ReportRows ==
    IF report.op = "get_report_data" THEN DataRows(strategy, report.out)
    ELSE LET rows == TextRows(report.out.sections)
         IN  [i \in 1..Len(rows) |-> [rows[i] EXCEPT !.value = Value(rows[i].value)]]

RECURSIVE SumValues(_)
SumValues(rows) == IF rows = <<>> THEN 0 ELSE Head(rows).value + SumValues(Tail(rows))

OfKind(rows, kind) == LET Keep(r) == r.kind = kind IN SelectSeq(rows, Keep)

Ran(s) == report.op \in {"execute_report_generation", "get_report_data"} /\ strategy = s

\* Claim C11: for any list of transaction records, the sum of the income rows
\* of the category report equals the sum of amount over the records of kind
\* income, and the sum of its expense rows the sum over the records of kind
\* expense, whatever the category value of a record.
C11_CategorySumsMatch ==
    Ran("category") =>
        /\ SumValues(OfKind(ReportRows, "Receita")) = Total(records, "income")
        /\ SumValues(OfKind(ReportRows, "Despesa")) = Total(records, "expense")

\* Claim C12: for any list of transaction records, the sum of all balances of
\* the monthly report equals the sum of amount over the income records minus
\* the sum of amount over the expense records.
C12_MonthlySumsMatch ==
    Ran("monthly") =>
        SumValues(ReportRows) = Total(records, "income") - Total(records, "expense")

\* C12's case: a monthly report over incomes and expenses of several months.
C12_Witness ==
    /\ Ran("monthly")
    /\ Len(ReportRows) >= 2
    /\ Total(records, "income") > 0 /\ Total(records, "expense") > 0
    /\ \E i \in 1..Len(ReportRows) : ReportRows[i].value < 0

\* The calendar month of a record, as its date spells it: YYYY-MM.
MonthOf(r) == SubSeq(r.date, 1, 7)

\* The number of the calendar month a key YYYY-MM names.
MonthNumber(key) == TokenVal(SubSeq(key, 1, 4)) * 12 + TokenVal(SubSeq(key, 6, 7))

\* Claim C13: the rows of the monthly report, of generate_report and of
\* get_report_data, are strictly increasing by calendar month for every order
\* of the input, with exactly one row per calendar month that has a record,
\* months of net balance zero included.
C13_MonthlyRowsAscending ==
    Ran("monthly") =>
        /\ \A i, j \in 1..Len(ReportRows) :
              i < j => MonthNumber(ReportRows[i].key) < MonthNumber(ReportRows[j].key)
        /\ {ReportRows[i].key : i \in 1..Len(ReportRows)}
              = {MonthOf(records[k]) : k \in 1..Len(records)}

\* C13's case: the records come latest month first, and the month with two
\* records nets to zero.
C13_Witness ==
    /\ Ran("monthly")
    /\ Len(records) = 3
    /\ MonthNumber(MonthOf(records[1])) > MonthNumber(MonthOf(records[3]))
    /\ Len(ReportRows) = 2
    /\ ReportRows[2].value = 0

\* Claim C14: on an empty input, generate_report of either strategy returns
\* the strategy's fixed no-data message and get_report_data of either returns
\* an empty row sequence.
C14_EmptyInput ==
    records = <<>> =>
        /\ report.op = "execute_report_generation" =>
              report.out = (IF strategy = "category" THEN NoCategoryData ELSE NoMonthlyData)
        /\ report.op = "get_report_data" => report.out.rows = <<>>

\* C14's case: the monthly strategy was run on the empty list.
C14_Witness ==
    /\ records = <<>>
    /\ report.op = "execute_report_generation"
    /\ strategy = "monthly"

\* The rows with their values as "%.2f" prints them.
AsPrinted(rows) == [i \in 1..Len(rows) |-> [rows[i] EXCEPT !.value = Format2(rows[i].value)]]

\* Claim C15: for each strategy and every input, get_report_data yields the
\* same groups with the same sums, in the same order, as the rows that
\* generate_report prints for that input.
C15_DataMatchesText ==
    /\ report.op = "get_report_data" =>
          AsPrinted(DataRows(strategy, report.out))
              = TextRows(ExecuteReportGenerationRun(strategy, records).sections)
    /\ report.op = "execute_report_generation" =>
          TextRows(report.out.sections)
              = AsPrinted(DataRows(strategy, GetReportDataRun(strategy, records)))

\* C15's case: report data of the category strategy with groups of incomes
\* and of expenses, three groups in all.
C15_Witness ==
    /\ report.op = "get_report_data"
    /\ strategy = "category"
    /\ OfKind(ReportRows, "Receita") # <<>>
    /\ OfKind(ReportRows, "Despesa") # <<>>
    /\ Len(ReportRows) = 3

\* The (category, kind) pairs present in the input.
Pairs(recs) == {[category |-> recs[i].category, type |-> recs[i].type] : i \in 1..Len(recs)}

\* The sum of the amounts of the records of one pair.
RECURSIVE PairTotal(_, _, _)
PairTotal(recs, p, n) ==
    IF n = 0 THEN 0
    ELSE PairTotal(recs, p, n - 1)
         + (IF recs[n].category = p.category /\ recs[n].type = p.type
            THEN recs[n].amount.v ELSE 0)

\* The row of the category report that stands for a pair.
RowOf(p, row) ==
    /\ ~p.category.na /\ row.key = p.category.s
    /\ row.kind = (IF p.type = "income" THEN "Receita" ELSE "Despesa")

Scenario ==
    << Record("income", Num(100000), Date("2","0","2","5","-","0","1","-","1","0"),
              Str(<<"W","o","r","k">>)),
       Record("expense", Num(20000), Date("2","0","2","5","-","0","1","-","1","5"),
              Str(<<"F","o","o","d">>)),
       Record("expense", Num(5000), Date("2","0","2","5","-","0","2","-","0","1"),
              Str(<<"F","o","o","d">>)) >>

\* Claim C16: the category report has exactly one row per (category, kind)
\* pair present in the input, whose value is the sum of amount over the records
\* of that pair (category compared exactly, case-sensitively), all income rows
\* before all expense rows; for [income 1000 Work, expense 200 Food, expense 50
\* Food] it is Work=1000 (income) then Food=250 (expense).
C16_OneRowPerPair ==
    Ran("category") =>
        /\ Len(ReportRows) = Cardinality(Pairs(records))
        /\ \A p \in Pairs(records) :
              \E i \in 1..Len(ReportRows) :
                  /\ RowOf(p, ReportRows[i])
                  /\ ReportRows[i].value = PairTotal(records, p, Len(records))
        /\ \A i, j \in 1..Len(ReportRows) :
              (ReportRows[i].kind = "Receita" /\ ReportRows[j].kind = "Despesa") => i < j
        /\ records = Scenario =>
              ReportRows = << [key |-> <<"W","o","r","k">>, kind |-> "Receita", value |-> 100000],
                              [key |-> <<"F","o","o","d">>, kind |-> "Despesa", value |-> 25000] >>

\* Claim C17: ReportGenerator holds exactly one active strategy: after any
\* sequence of set_strategy calls, execute_report_generation and
\* get_report_data return the result of the strategy set last (the
\* constructor's if none was set) on the given records, and set_strategy runs
\* no aggregation.
C17_ActiveStrategy ==
    [][/\ report'.op = "execute_report_generation" =>
              report'.out = (IF report.set = "category"
                             THEN CategoryGenerateReport(records)
                             ELSE MonthlyGenerateReport(records))
       /\ report'.op = "get_report_data" =>
              report'.out = (IF report.set = "category"
                             THEN CategoryGetReportData(records)
                             ELSE MonthlyGetReportData(records))
       /\ report'.op = "set_strategy" =>
              /\ report'.out = report.out
              /\ report'.set = strategy'
      ]_vars

\* C17's case: the strategy was swapped after construction, and the report
\* then generated is the one of the new strategy on a list with records.
C17_Witness ==
    /\ report.op = "execute_report_generation"
    /\ report.ctor = "category" /\ report.set = "monthly"
    /\ report.out.head = "--- Relatório Mensal ---"
    /\ Len(records) >= 2

(***************************************************************************)
(* The store: C18, C20 (checked under SpecStore), C19 (checked under Spec) *)
(***************************************************************************)
\* The rows of the default category.
DefaultRows(rows) == {r \in rows : r.name = <<"Outros">>}

\* Claim C18: store initialization is idempotent: running the schema
\* initialization again on the same store leaves all existing transaction and
\* category rows unchanged, and after either run the default category exists
\* exactly once.
C18_InitIdempotent ==
    /\ Cardinality(DefaultRows(categories)) = 1
    /\ [][last'.op = "create_tables" =>
              /\ transactions' = transactions /\ txSeq' = txSeq
              /\ categories \subseteq categories'
              /\ Cardinality(DefaultRows(categories')) = 1
              /\ DefaultRows(categories) # {} =>
                    (categories' = categories /\ catSeq' = catSeq)
         ]_vars

\* C18's case: the initialization ran again on a store that holds a
\* transaction, the default category and another category.
C18_Witness ==
    /\ last.op = "create_tables"
    /\ last.trace = <<"ignored">>
    /\ transactions # {}
    /\ Cardinality(categories) >= 2

\* Claim C19: after any sequence of service-facade operations, every
\* transaction in the store has kind exactly income or expense, an amount that
\* is a number strictly greater than 0, and a date that is a valid calendar
\* date in YYYY-MM-DD form.
C19_StoredTransactionsValid ==
    \A r \in transactions :
        /\ r.type \in {"income", "expense"}
        /\ r.amount.t = "num" /\ r.amount.v > 0
        /\ IsIsoDate(r.date)

\* The name is not empty and begins and ends with no blank.
Trimmed(name) == name # <<>> /\ name[1] # " " /\ name[Len(name)] # " "

\* Claim C20: after store initialization and any sequence of add_category,
\* update_category and delete_category calls, every category name in the store
\* is non-empty and trimmed, and no two categories have the same name.
C20_CategoryNames ==
    /\ \A r \in categories : Trimmed(r.name)
    /\ \A r1, r2 \in categories : r1.name = r2.name => r1 = r2

\* C20's case: a category was renamed with a name given with blanks around it,
\* while the store holds another category.
C20_Witness ==
    /\ last.op = "update_category"
    /\ last.args.name = <<" ", "Food", " ">>
    /\ last.result = "True"
    /\ Cardinality(categories) >= 2

(***************************************************************************)
(* The facade and its events: C21, C22, C24 (checked under Spec)           *)
(***************************************************************************)
\* Claim C21: a persisted transaction is immutable: no facade operation
\* changes a field of an existing transaction (update_category and
\* delete_category leave every transaction, its category string included,
\* unchanged); a transaction leaves the store only through delete_transaction
\* with its own id, which publishes transaction_deleted.
C21_TransactionsImmutable ==
    [][\A r \in transactions :
          \/ r \in transactions'
          \/ /\ last'.op = "delete_transaction"
             /\ last'.args.id = PyInt(r.id)
             /\ ~\E q \in transactions' : q.id = r.id
             /\ dispatch'.op = "notify" /\ dispatch'.ev = "transaction_deleted"
      ]_vars

\* C21's case: the category a stored transaction names was deleted, and the
\* transaction is there as it was.
C21_Witness ==
    /\ last.op = "delete_category"
    /\ last.result = "True"
    /\ \E r \in transactions : r.category = "Outros"
    /\ ~\E c \in categories : c.name = <<"Outros">>

\* Claim C22: every published event carries a payload that describes what the
\* mutation persisted: transaction_added the full record as stored,
\* transaction_deleted {id} of the removed row, category_added the full
\* category as stored, category_updated {id, name} with the name now stored for
\* that id, category_deleted {id}.
C22_PayloadDescribesPersisted ==
    dispatch.op = "notify" =>
        CASE dispatch.ev = "transaction_added" ->
                \E r \in transactions :
                    /\ r.id = txSeq
                    /\ dispatch.data = [type |-> r.type, amount |-> r.amount, date |-> r.date,
                                        description |-> r.description,
                                        category |-> r.category]
          [] dispatch.ev = "transaction_deleted" ->
                /\ dispatch.data = [id |-> last.args.id]
                /\ ~\E r \in transactions : r.id = dispatch.data.id.n
          [] dispatch.ev = "category_added" ->
                \E r \in categories : r.id = catSeq /\ dispatch.data = [name |-> r.name]
          [] dispatch.ev = "category_updated" ->
                /\ DOMAIN dispatch.data = {"id", "name"}
                /\ \E r \in categories :
                      r.id = dispatch.data.id.n /\ r.name = dispatch.data.name
          [] dispatch.ev = "category_deleted" ->
                /\ dispatch.data = [id |-> last.args.id]
                /\ ~\E r \in categories : r.id = dispatch.data.id.n
          [] OTHER -> FALSE

\* Claim C24: register_transaction, add_category, update_category,
\* delete_transaction and delete_category return True if and only if the store
\* mutation of that call was persisted, whatever the subscribers of the
\* published event do: a subscriber can neither turn a persisted mutation into
\* a False result nor make the operation raise.
C24_ResultTellsPersisted ==
    [][last'.op \in {"register_transaction", "delete_transaction", "add_category",
                     "update_category", "delete_category"} =>
          /\ last'.result = "True" <=> Persisted(last')
          /\ Persisted(last') => last'.result # "raised"
      ]_vars

(***************************************************************************)
(* The queries: C29 (checked under SpecStore)                              *)
(***************************************************************************)
\* The day a date string of ten characters names, as strptime reads it.
DayOf(s) ==
    (TokenVal(SubSeq(s, 1, 4)) * 12 + TokenVal(SubSeq(s, 6, 7))) * 31
        + TokenVal(SubSeq(s, 9, 10))

\* Claim C29: get_transactions_for_report(start_date, end_date) with both
\* bounds given returns exactly the stored transactions whose date d satisfies
\* start_date <= d <= end_date, ordered by date descending; with no bounds it
\* returns all stored transactions ordered by date descending; a query never
\* modifies the store or publishes an event.
C29_RangeQuery ==
    [][last'.op = "get_transactions_for_report" =>
          LET res == last'.result
              lo == last'.args.start_date
              hi == last'.args.end_date
              returned == {res[i] : i \in 1..Len(res)}
          IN  /\ UNCHANGED storeVars
              /\ dispatch'.op # "notify"
              /\ Len(res) = Cardinality(returned)
              /\ (lo # <<>> /\ hi # <<>>) =>
                    returned = {r \in transactions :
                                   DayOf(lo) <= DayOf(r.date) /\ DayOf(r.date) <= DayOf(hi)}
              /\ (lo = <<>> /\ hi = <<>>) => returned = transactions
              /\ \A i, j \in 1..Len(res) : i < j => DayOf(res[i].date) >= DayOf(res[j].date)
      ]_vars

(***************************************************************************)
(* The singleton: C23 (checked under SpecDb)                               *)
(***************************************************************************)
\* Claim C23: for any sequence of DatabaseManager() constructions,
\* get_connection and close_connection calls in one process, the store
\* connection is opened at most once, every construction returns the same
\* manager with the same connection, and the connection is closed at most
\* once (a second close_connection is a no-op).
C23_OneConnection ==
    /\ db.opened <= 1
    /\ Cardinality(db.constructed) <= 1
    /\ db.op = "get_connection" /\ db.returned # 0 => db.returned = 1
    /\ db.repos \subseteq {0, 1}
    /\ \A i, j \in 1..Len(db.closes) : db.closes[i] = db.closes[j] => i = j

(***************************************************************************)
(* Listeners that change the registry: C25, C26 (checked under             *)
(* SpecReentrant)                                                          *)
(***************************************************************************)
\* The positions of a trace at which listener cb is called under ev.
CallsAt(t, ev, cb) == {i \in 1..Len(t) : t[i].k = "call" /\ t[i].ev = ev /\ t[i].cb = cb}

\* The listeners removed from the list of ev in a trace.
Removed(t, ev) == {t[i].cb : i \in {j \in 1..Len(t) : t[j].k = "unsubscribe" /\ t[j].ev = ev}}

\* Some listener changed the list of ev in a trace.
Changed(t, ev) == \E i \in 1..Len(t) : t[i].k \in {"subscribe", "unsubscribe"} /\ t[i].ev = ev

\* Claim C25: if a callback subscribes or unsubscribes callbacks (itself or
\* others) under the event type being dispatched while notify is running,
\* every callback that was registered when notify started and is not itself
\* unsubscribed during the dispatch is still invoked exactly once in that
\* notify, and no callback is skipped or invoked twice.
C25_NoListenerSkipped ==
    dispatch.op = "notify" /\ Changed(dispatch.calls, dispatch.ev) =>
        \A cb \in ReentrantCallbacks :
            /\ Cardinality(CallsAt(dispatch.calls, dispatch.ev, cb)) <= 1
            /\ InList(cb, dispatch.before) /\ cb \notin Removed(dispatch.calls, dispatch.ev)
                  => Cardinality(CallsAt(dispatch.calls, dispatch.ev, cb)) = 1

\* Claim C26: notify is synchronous and re-entrant: when notify returns, every
\* callback of that dispatch has completed; a notify issued by a callback
\* during a dispatch runs all of its own callbacks to completion before the
\* outer dispatch invokes its next callback, and the outer dispatch then still
\* invokes all of its remaining callbacks.
C26_NestedNotify ==
    dispatch.op = "notify" =>
        LET t == dispatch.calls
            Returns(i) == {j \in (i + 1)..Len(t) :
                              t[j].k = "return" /\ t[j].ev = t[i].ev /\ t[j].cb = t[i].cb}
            Inside(i) == {j \in (i + 1)..Len(t) : \A r \in Returns(i) : j < r}
        IN  /\ t[Len(t)] = [k |-> "done", ev |-> dispatch.ev, cb |-> "none", list |-> <<>>]
            /\ \A i \in 1..Len(t) : t[i].k = "call" => Returns(i) # {}
            /\ \A i \in 1..Len(t) :
                  t[i].k = "call" /\ t[i].cb = "nester" =>
                      /\ \E n \in Inside(i) :
                            /\ t[n].k = "notify"
                            /\ \A cb \in ReentrantCallbacks :
                                  InList(cb, t[n].list) /\ cb \notin Removed(t, t[n].ev) =>
                                      \E c \in Inside(i) : c > n /\ t[c].k = "call"
                                                           /\ t[c].ev = t[n].ev /\ t[c].cb = cb
                      /\ \A k \in (IndexOf("nester", dispatch.before) + 1)..Len(dispatch.before) :
                            dispatch.before[k] \notin Removed(t, dispatch.ev) =>
                                \E c \in CallsAt(t, dispatch.ev, dispatch.before[k]) :
                                    \A r \in Returns(i) : c > r

(***************************************************************************)
(* The views: C27, C28 (checked under SpecUi)                              *)
(***************************************************************************)
\* Claim C27: after any sequence of view switches in MainApplication, the
\* callbacks registered on the event bus belong only to the view currently
\* displayed: a view that has been destroyed is no longer subscribed to any
\* event type, so the number of registered callbacks per event type stays
\* bounded and notify never calls a destroyed view.
C27_OnlyLiveViewSubscribed ==
    /\ \A ev \in DOMAIN listeners :
          /\ Len(listeners[ev]) <= 1
          /\ \A i \in 1..Len(listeners[ev]) : listeners[ev][i].inst = ui.inst
    /\ dispatch.op = "notify" =>
          \A i \in 1..Len(dispatch.calls) : dispatch.calls[i].cb.inst = ui.inst

\* The amounts of the rows of a type, added up.
RECURSIVE AmountsOf(_, _)
AmountsOf(rows, kind) ==
    IF \A r \in rows : r.type # kind THEN 0
    ELSE LET r == CHOOSE x \in rows : x.type = kind
         IN  r.amount.v + AmountsOf(rows \ {r}, kind)

\* Claim C28: while a view that displays derived data is live, it is
\* synchronized with the store after every successful mutation: after each
\* successful register_transaction or delete_transaction the balance shown by
\* HomeView equals the sum of income amounts minus the sum of expense amounts
\* of the transactions currently in the store, and after each successful
\* add/update/delete of a category the category list shown by
\* CategoryManagerView equals the categories currently in the store.
C28_ViewSynchronized ==
    [][/\ last'.op \in {"register_transaction", "delete_transaction"}
          /\ last'.result = "True" /\ ui'.view = "HomeView"
          => LET balance == AmountsOf(transactions', "income")
                                - AmountsOf(transactions', "expense")
             IN  /\ ui'.shown.kind = "balance"
                 /\ ui'.shown.v.neg = (balance < 0)
                 /\ (IF ui'.shown.v.neg THEN 0 - 1 ELSE 1)
                        * (100 * ui'.shown.v.int + ui'.shown.v.frac) = 100 * balance
       /\ last'.op \in {"add_category", "update_category", "delete_category"}
          /\ last'.result = "True" /\ ui'.view = "CategoryManagerView"
          => /\ ui'.shown.kind = "categories"
             /\ Len(ui'.shown.v) = Cardinality(categories')
             /\ {[id |-> ui'.shown.v[i][1], name |-> ui'.shown.v[i][2]] :
                    i \in 1..Len(ui'.shown.v)} = categories'
      ]_vars

\* A second HomeView shows a balance below zero after a successful
\* register_transaction, the first one still being subscribed.
C28_Witness ==
    /\ ui.view = "HomeView" /\ ui.inst = 2
    /\ last.op = "register_transaction" /\ last.result = "True"
    /\ ui.shown.v.neg
    /\ Len(listeners["transaction_added"]) = 2

====
